---- MODULE Spec2Model ----
(***************************************************************************)
(* ContribConnect: the graph store (nodes and edges tables), the           *)
(* checkpointed comprehensive pull-request crawl and the ingestion of one  *)
(* repository, modelled from src/lambda/ingest/lambda_function.py and      *)
(* src/lambda/graph-tool/lambda_function.py.                               *)
(*                                                                         *)
(* Strings that the code builds with f-strings are sequences of tokens:    *)
(* "#" and "/" are tokens of their own, every other token is a piece of    *)
(* text holding neither, so that concatenation and begins_with are         *)
(* computed as on the strings themselves.                                  *)
(***************************************************************************)
EXTENDS Integers, Sequences, FiniteSets, TLC

VARIABLES
  nodes,      \* nodes table: nodeId -> item
  edges,      \* edges table: <<fromId, toIdEdgeType>> -> item
  now,        \* the clock read by datetime.now()
  calls,      \* number of store calls made so far (SpecNodes, SpecEdges)
  lastNode,   \* history: nodeId -> arguments of its last successful upsert_node
  lastEdge,   \* history: <<fromId, toId, edgeType>> -> arguments of its last successful upsert_edge
  lastCall,   \* history: the last store call, with the table as it was before it
  repos,      \* repos table: <<org, repo>> -> item
  prCount,    \* upstream: the repository's pull requests are numbered 1..prCount
  noUser,     \* upstream: the pull requests whose user is null
  mode,       \* ingest_repository: mode
  pc,         \* where ingest_repository / scrape_pull_requests_comprehensive stands
  last_processed_pr,  \* scrape: the checkpoint read at the start of the run
  all_prs,    \* scrape: the numbers of the pull requests fetched, in fetch order
  page,       \* scrape: page of the list fetch
  idx,        \* scrape: position of the loop in all_prs
  stats,      \* scrape: prs_total, prs_processed, prs_skipped, last_pr_processed, errors
  faults,     \* failures of requests and of graph writes the environment may still inject
  cfaults,    \* failures of repos table calls the environment may still inject
  runs,       \* runs started so far
  news,       \* pull requests opened upstream since the start
  hist        \* history of the current run and snapshot of the previous one

storeVars == <<nodes, edges, now, calls, lastNode, lastEdge, lastCall>>
crawlVars == <<repos, prCount, noUser, mode, pc, last_processed_pr, all_prs, page, idx,
               stats, faults, cfaults, runs, news, hist>>
vars == <<storeVars, crawlVars>>

(***************************************************************************)
(* Bounds of the model.                                                    *)
(***************************************************************************)
MaxCalls == 3
\* most pull requests upstream at the start of a crawl that is resumed (SpecCrawl)
MaxPR == 3
\* most pull requests upstream at the start of a single run (SpecResume)
LongPR == 11
\* the pull request that may come without a user
GhostPR == 2
\* most runs in one behaviour
MaxRuns == 2
\* most failures injected in one behaviour
MaxFaults == 1
\* most pull requests opened upstream during one behaviour
MaxNew == 1
\* page size of the list fetch; the source asks for pages of 100
PerPage == 2

(***************************************************************************)
(* Strings.                                                                *)
(***************************************************************************)
Hash == <<"#">>

\* str.startswith / DynamoDB begins_with
begins_with(s, p) == Len(s) >= Len(p) /\ SubSeq(s, 1, Len(p)) = p

Range(s) == {s[i] : i \in DOMAIN s}

RECURSIVE SetToSeq(_)
SetToSeq(S) == IF S = {} THEN <<>>
               ELSE LET x == CHOOSE y \in S : TRUE IN <<x>> \o SetToSeq(S \ {x})

\* Optional[Dict]: <<>> is None, <<d>> is the dict d; the empty dict is the
\* empty function.
None == <<>>
Some(d) == <<d>>
EmptyDict == [f \in {} |-> 0]

\* `properties or {}`
OrEmpty(opt) == IF opt = None THEN EmptyDict ELSE opt[1]

(***************************************************************************)
(* Graph store, write side (ingest).                                       *)
(***************************************************************************)
\* Table.put_item: the item replaces whatever the key held.
put_item(table, key, item) ==
  [k \in DOMAIN table \cup {key} |-> IF k = key THEN item ELSE table[k]]

NodeItem(node_id, node_type, data, ts) ==
  [nodeId |-> node_id, nodeType |-> node_type, data |-> data, updatedAt |-> ts]

\* A plausible slip: the new data is merged into the stored data (update
\* semantics) instead of replacing it.
upsert_node_merge(table, node_id, node_type, data, ts, ok) ==
  IF ~ok THEN table
  ELSE LET old == IF node_id \in DOMAIN table THEN table[node_id].data ELSE EmptyDict
           merged == [f \in DOMAIN old \cup DOMAIN data |->
                        IF f \in DOMAIN data THEN data[f] ELSE old[f]]
       IN put_item(table, node_id, NodeItem(node_id, node_type, merged, ts))

\* upsert_node: put_item inside try/except; ok = FALSE is the put_item that
\* raises, which is printed and swallowed.
upsert_node(table, node_id, node_type, data, ts, ok) ==
  IF ok THEN put_item(table, node_id, NodeItem(node_id, node_type, data, ts))
  ELSE table

\* f"{to_id}#{edge_type}" and f"{from_id}#{edge_type}"
toIdEdgeType(to_id, edge_type) == to_id \o Hash \o <<edge_type>>
fromIdEdgeType(from_id, edge_type) == from_id \o Hash \o <<edge_type>>

\* A plausible slip: the sort key leaves the edge type out.
EdgeKeyNoType(from_id, to_id, edge_type) == <<from_id, to_id>>

\* Primary key of the edges table: (fromId, toIdEdgeType), the two attributes
\* get_outgoing_edges puts in its KeyConditionExpression.
EdgeKey(from_id, to_id, edge_type) == <<from_id, toIdEdgeType(to_id, edge_type)>>

EdgeItem(from_id, to_id, edge_type, properties, ts) ==
  [fromId |-> from_id,
   toIdEdgeType |-> toIdEdgeType(to_id, edge_type),
   toId |-> to_id,
   fromIdEdgeType |-> fromIdEdgeType(from_id, edge_type),
   edgeType |-> edge_type,
   properties |-> OrEmpty(properties),
   updatedAt |-> ts]

upsert_edge(table, from_id, to_id, edge_type, properties, ts, ok) ==
  IF ok THEN put_item(table, EdgeKey(from_id, to_id, edge_type),
                      EdgeItem(from_id, to_id, edge_type, properties, ts))
  ELSE table

(***************************************************************************)
(* Graph store, read side (graph-tool).  ok = FALSE is the query that      *)
(* raises: the handler prints the error and returns its empty result.      *)
(***************************************************************************)
Items(table) == {table[k] : k \in DOMAIN table}

get_node(table, node_id, ok) ==
  IF ok /\ node_id \in DOMAIN table THEN Some(table[node_id]) ELSE None

\* f"#{edge_type}", the prefix get_outgoing_edges hands to begins_with
OutgoingPrefix(edge_type) == Hash \o <<edge_type>>

\* edge_type = "" is the call without an edge type (None and "" are both falsy)
get_outgoing_edges(table, from_id, edge_type, ok) ==
  IF ~ok THEN <<>>
  ELSE IF edge_type # ""
  THEN SetToSeq({e \in Items(table) :
                   /\ e.fromId = from_id
                   /\ begins_with(e.toIdEdgeType, OutgoingPrefix(edge_type))})
  ELSE SetToSeq({e \in Items(table) : e.fromId = from_id})

\* A plausible slip: the client-side filter on the edge type is left out.
get_incoming_edges_nofilter(table, to_id, edge_type, ok) ==
  IF ~ok THEN <<>> ELSE SetToSeq({e \in Items(table) : e.toId = to_id})

\* Query on ReverseEdgeIndex by toId, then the filter on edgeType.
get_incoming_edges(table, to_id, edge_type, ok) ==
  IF ~ok THEN <<>>
  ELSE LET fetched == SetToSeq({e \in Items(table) : e.toId = to_id})
       IN IF edge_type # ""
          THEN SelectSeq(fetched, LAMBDA e : e.edgeType = edge_type)
          ELSE fetched

(***************************************************************************)
(* Identifiers, as the f-strings of the ingestion build them.              *)
(***************************************************************************)
\* f"{org}/{repo}"
RepoName(org, repo) == <<org, "/", repo>>
\* f"repo#{org}/{repo}" (ingest), f"repo#{repo}" (graph-tool)
RepoId(repo_name) == <<"repo">> \o Hash \o repo_name
\* f"user#{user_login}"
UserId(login) == <<"user">> \o Hash \o <<login>>
\* f"pr#{org}/{repo}#{pr_number}"
PrId(repo_name, pr_number) == <<"pr">> \o Hash \o repo_name \o Hash \o <<ToString(pr_number)>>
\* f"issue#{org}/{repo}#{issue_number}"
IssueId(repo_name, issue_number) ==
  <<"issue">> \o Hash \o repo_name \o Hash \o <<ToString(issue_number)>>
\* f"label#{org}/{repo}#{label_name}"; a label name is any text
LabelId(repo_name, label_name) == <<"label">> \o Hash \o repo_name \o Hash \o label_name

TheRepo == RepoName("o", "r")

(***************************************************************************)
(* github_request without pagination.  responses are the status codes the  *)
(* server gives to the successive attempts: 200, 403 (the rate-limit 403), *)
(* 404, or any other code (500).  The result is "ok" (the JSON body),      *)
(* "empty" (the {} returned on a 404 and after three rate-limit waits) or  *)
(* "raise" (the exception after the third failed attempt).                 *)
(***************************************************************************)
max_retries == 3

RECURSIVE request_attempts(_, _)
request_attempts(responses, attempt) ==
  IF attempt >= max_retries THEN "empty"
  ELSE LET code == responses[attempt + 1]
       IN IF code = 200 THEN "ok"
          ELSE IF code = 403 THEN request_attempts(responses, attempt + 1)
          ELSE IF code = 404 THEN "empty"
          ELSE IF attempt < max_retries - 1 THEN request_attempts(responses, attempt + 1)
          ELSE "raise"

github_request(responses) == request_attempts(responses, 0)

\* github_request with pagination, for a list of one page: a 404 and a third
\* failure in a row return the empty list collected so far; three rate-limit
\* rejections in a row start the attempts for the page anew, and the answers
\* after the given ones are 200
RECURSIVE page_attempts(_, _)
page_attempts(responses, attempt) ==
  IF attempt >= max_retries THEN "ok"
  ELSE LET code == responses[attempt + 1]
       IN IF code = 200 THEN "ok"
          ELSE IF code = 403 THEN page_attempts(responses, attempt + 1)
          ELSE IF code = 404 THEN "empty"
          ELSE IF attempt < max_retries - 1 THEN page_attempts(responses, attempt + 1)
          ELSE "empty"
github_request_paginated(responses) == page_attempts(responses, 0)

Healthy == <<200, 200, 200>>
Failing == {<<404, 200, 200>>, <<403, 403, 403>>, <<500, 500, 500>>, <<500, 403, 200>>}
\* the answers the environment may give while it may still inject k failures
Responses(k) == IF k > 0 THEN {Healthy} \cup Failing ELSE {Healthy}
Cost(responses) == IF responses = Healthy THEN 0 ELSE 1
\* a storage call may fail while failures may still be injected
StoreOk(k) == IF k > 0 THEN {TRUE, FALSE} ELSE {TRUE}

(***************************************************************************)
(* Checkpoint: lastProcessedPR of the repository's entry in the repos      *)
(* table.  An item is a function from attribute names to values.           *)
(***************************************************************************)
RepoKey == <<"o", "r">>

\* A plausible slip: an entry without lastProcessedPR answers 1.
get_last_processed_pr_one(table, key, ok) ==
  IF ok /\ key \in DOMAIN table /\ "lastProcessedPR" \in DOMAIN table[key]
  THEN table[key].lastProcessedPR ELSE 1

get_last_processed_pr(table, key, ok) ==
  IF ok /\ key \in DOMAIN table
  THEN IF "lastProcessedPR" \in DOMAIN table[key] THEN table[key].lastProcessedPR ELSE 0
  ELSE 0

\* A plausible slip: a checkpoint the entry holds already is kept
\* (if_not_exists).
update_checkpoint_keep(table, key, pr_number, ts, ok) ==
  IF ~ok \/ (key \in DOMAIN table /\ "lastProcessedPR" \in DOMAIN table[key]) THEN table
  ELSE put_item(table, key, [org |-> key[1], repo |-> key[2],
                             lastProcessedPR |-> pr_number, lastCheckpointAt |-> ts])

\* update_item SET lastProcessedPR = :pr, lastCheckpointAt = :now; it creates
\* the item when the key has none.  ok = FALSE: the call raises, which is
\* printed and swallowed.
update_checkpoint(table, key, pr_number, ts, ok) ==
  IF ~ok THEN table
  ELSE LET old == IF key \in DOMAIN table THEN table[key]
                  ELSE [org |-> key[1], repo |-> key[2]]
           new == [f \in DOMAIN old \cup {"lastProcessedPR", "lastCheckpointAt"} |->
                     IF f = "lastProcessedPR" THEN pr_number
                     ELSE IF f = "lastCheckpointAt" THEN ts
                     ELSE old[f]]
       IN put_item(table, key, new)

(***************************************************************************)
(* Upstream: what GitHub answers for the repository.  Pull request n is    *)
(* authored by alice, has one comment by bob, one review by carol and      *)
(* touches one file; the fields the code copies as they are (title, url,   *)
(* dates) are left out of the node data, number and state stand for them.  *)
(***************************************************************************)
PrAuthor(n) == "alice"
Comments(n) == << [id |-> n, user |-> "bob"] >>
Reviews(n) == << [id |-> n, user |-> "carol", state |-> "APPROVED"] >>
Files(n) == << [filename |-> <<"src", "/", "f.py">>, additions |-> n, deletions |-> 0,
               status |-> "modified"] >>

\* GET /pulls?state=all&per_page=..&page=p&sort=created&direction=desc: the
\* p-th slice of the pull requests, newest first.
Page(count, p) ==
  [i \in 1 .. (IF count - (p - 1) * PerPage >= PerPage THEN PerPage
               ELSE IF count - (p - 1) * PerPage > 0 THEN count - (p - 1) * PerPage
               ELSE 0) |-> count - (p - 1) * PerPage - i + 1]

\* f"comment#{org}/{repo}#pr#{pr_number}#comment#{comment.get('id')}"
CommentId(repo_name, pr_number, id) ==
  <<"comment">> \o Hash \o repo_name \o Hash \o <<"pr">> \o Hash \o <<ToString(pr_number)>>
    \o Hash \o <<"comment">> \o Hash \o <<ToString(id)>>
\* f"review#{org}/{repo}#pr#{pr_number}#review#{review.get('id')}"
ReviewId(repo_name, pr_number, id) ==
  <<"review">> \o Hash \o repo_name \o Hash \o <<"pr">> \o Hash \o <<ToString(pr_number)>>
    \o Hash \o <<"review">> \o Hash \o <<ToString(id)>>
\* f"file#{org}/{repo}#{filename}"
FileId(repo_name, filename) == <<"file">> \o Hash \o repo_name \o Hash \o filename

\* '/'.join(filename.split('/')[:-1]) if '/' in filename else ''
RECURSIVE Directory(_)
Directory(filename) ==
  IF filename = <<>> THEN <<>>
  ELSE IF filename[Len(filename)] = "/" THEN SubSeq(filename, 1, Len(filename) - 1)
  ELSE Directory(SubSeq(filename, 1, Len(filename) - 1))

(***************************************************************************)
(* The store calls of one step, in the order the code makes them.          *)
(***************************************************************************)
NodeWrite(id, type, data) == [op |-> "node", id |-> id, type |-> type, data |-> data]
EdgeWrite(f, t, type, props) == [op |-> "edge", from |-> f, to |-> t, type |-> type, props |-> props]

\* A plausible slip: the exception of the failing call is not caught, and the
\* calls after it are not made.
RECURSIVE ApplyWritesAbort(_, _, _, _, _)
ApplyWritesAbort(tabs, ws, i, bad, ts) ==
  IF i > Len(ws) \/ i = bad THEN tabs
  ELSE LET w == ws[i]
           next == IF w.op = "node"
                   THEN [tabs EXCEPT !.nodes = upsert_node(tabs.nodes, w.id, w.type, w.data, ts, TRUE)]
                   ELSE [tabs EXCEPT !.edges = upsert_edge(tabs.edges, w.from, w.to, w.type, w.props, ts, TRUE)]
       IN ApplyWritesAbort(next, ws, i + 1, bad, ts)

\* the calls ws made one after the other; call number bad (0: none) fails
RECURSIVE ApplyWrites(_, _, _, _, _)
ApplyWrites(tabs, ws, i, bad, ts) ==
  IF i > Len(ws) THEN tabs
  ELSE LET w == ws[i]
           next == IF w.op = "node"
                   THEN [tabs EXCEPT !.nodes = upsert_node(tabs.nodes, w.id, w.type, w.data, ts, i # bad)]
                   ELSE [tabs EXCEPT !.edges = upsert_edge(tabs.edges, w.from, w.to, w.type, w.props, ts, i # bad)]
       IN ApplyWrites(next, ws, i + 1, bad, ts)

\* lines 354-398: PR node, user node, AUTHORED, IN_REPO
CoreWrites(n) ==
  << NodeWrite(PrId(TheRepo, n), "pull_request", [number |-> n, state |-> "open"]),
     NodeWrite(UserId(PrAuthor(n)), "user", [login |-> PrAuthor(n), type |-> "contributor"]),
     EdgeWrite(UserId(PrAuthor(n)), PrId(TheRepo, n), "AUTHORED", Some([createdAt |-> n])),
     EdgeWrite(PrId(TheRepo, n), RepoId(TheRepo), "IN_REPO", None) >>

\* lines 405-419
RECURSIVE CommentWrites(_, _)
CommentWrites(n, comments) ==
  IF comments = <<>> THEN <<>>
  ELSE LET c == Head(comments)
           cid == CommentId(TheRepo, n, c.id)
       IN (IF c.user # ""
           THEN << NodeWrite(cid, "pr_comment", [pr_number |-> n, author |-> c.user]),
                   EdgeWrite(UserId(c.user), cid, "COMMENTED", None),
                   EdgeWrite(cid, PrId(TheRepo, n), "ON_PR", None) >>
           ELSE <<>>) \o CommentWrites(n, Tail(comments))

\* lines 426-440
RECURSIVE ReviewWrites(_, _)
ReviewWrites(n, reviews) ==
  IF reviews = <<>> THEN <<>>
  ELSE LET r == Head(reviews)
           rid == ReviewId(TheRepo, n, r.id)
       IN (IF r.user # ""
           THEN << NodeWrite(rid, "pr_review", [pr_number |-> n, reviewer |-> r.user, state |-> r.state]),
                   EdgeWrite(UserId(r.user), rid, "REVIEWED", None),
                   EdgeWrite(rid, PrId(TheRepo, n), "REVIEWS_PR", None) >>
           ELSE <<>>) \o ReviewWrites(n, Tail(reviews))

\* lines 447-461
RECURSIVE FileWrites(_, _)
FileWrites(n, files) ==
  IF files = <<>> THEN <<>>
  ELSE LET f == Head(files)
           fid == FileId(TheRepo, f.filename)
       IN (IF f.filename # <<>>
           THEN << NodeWrite(fid, "file", [path |-> f.filename, directory |-> Directory(f.filename)]),
                   EdgeWrite(PrId(TheRepo, n), fid, "TOUCHES",
                             Some([additions |-> f.additions, deletions |-> f.deletions,
                                   status |-> f.status])) >>
           ELSE <<>>) \o FileWrites(n, Tail(files))

\* the contributor list and the issue list of the repository
Contributors ==
  << [login |-> "alice", type |-> "User", contributions |-> 5],
     [login |-> "dependabot", type |-> "Bot", contributions |-> 3] >>
\* the issues endpoint also lists the pull requests, marked 'pull_request'
IssueList(count) ==
  << [number |-> 20, user |-> "bob", pull_request |-> FALSE,
      labels |-> << [name |-> <<"bug">>, color |-> "red"] >>] >>
  \o (IF count > 0
      THEN << [number |-> count, user |-> PrAuthor(count), pull_request |-> TRUE,
               labels |-> <<>>] >>
      ELSE <<>>)

\* lines 526-538: the repo node
RepoWrites == << NodeWrite(RepoId(TheRepo), "repo", [name |-> "r", owner |-> "o"]) >>

\* lines 560-607, for a list short of the limits: bots and entries without a
\* login are passed over
RECURSIVE ContributorWrites(_)
ContributorWrites(contributors) ==
  IF contributors = <<>> THEN <<>>
  ELSE LET c == Head(contributors)
       IN (IF c.login # "" /\ c.type = "User"
           THEN << NodeWrite(UserId(c.login), "user",
                             [login |-> c.login, contributions |-> c.contributions,
                              type |-> "contributor"]),
                   EdgeWrite(UserId(c.login), RepoId(TheRepo), "CONTRIBUTES_TO",
                             Some([contributions |-> c.contributions])) >>
           ELSE <<>>) \o ContributorWrites(Tail(contributors))

\* lines 556-557
MAX_CONTRIBUTORS == 1000
\* the entries of stats['errors'] of the contributor loop, as numbers:
\* 'Timeout after n contributors' and 'Max contributor limit reached'
TimeoutReached == -1
LimitReached == -2

\* lines 560-612: the loop over the contributors.  expired_at is the number
\* of passes begun before time.time() - start_time exceeds
\* CONTRIBUTOR_TIMEOUT; acc holds stats['contributors'], the entries added to
\* stats['errors'], the reason of a halt (0: none) and the store calls made.
RECURSIVE contributor_loop(_, _, _, _)
contributor_loop(contributors, i, acc, expired_at) ==
  IF i > Len(contributors) THEN acc
  ELSE IF i > expired_at
  THEN [acc EXCEPT !.errors = Append(@, TimeoutReached), !.halt = TimeoutReached]
  ELSE IF acc.contributors >= MAX_CONTRIBUTORS
  THEN [acc EXCEPT !.errors = Append(@, LimitReached), !.halt = LimitReached]
  ELSE LET c == contributors[i]
       IN IF c.login = "" \/ c.type # "User"
          THEN contributor_loop(contributors, i + 1, acc, expired_at)
          ELSE contributor_loop(contributors, i + 1,
                 [acc EXCEPT !.contributors = @ + 1,
                             !.ws = @ \o ContributorWrites(<<c>>)], expired_at)
NoContributors == [contributors |-> 0, errors |-> <<>>, halt |-> 0, ws |-> <<>>]
\* the timeout may strike before any pass while a failure may still be injected
Expiry(k, contributors) ==
  IF k > 0 THEN 0 .. Len(contributors) ELSE {Len(contributors)}

\* lines 797-801
RECURSIVE LabelWrites(_, _)
LabelWrites(issue_id, labels) ==
  IF labels = <<>> THEN <<>>
  ELSE LET l == Head(labels)
       IN << NodeWrite(LabelId(TheRepo, l.name), "label", [name |-> l.name, color |-> l.color]),
             EdgeWrite(issue_id, LabelId(TheRepo, l.name), "HAS_LABEL", None) >>
          \o LabelWrites(issue_id, Tail(labels))

LabelNames(labels) == [i \in DOMAIN labels |-> labels[i].name]

\* lines 739-804
RECURSIVE IssueWrites(_)
IssueWrites(issues) ==
  IF issues = <<>> THEN <<>>
  ELSE LET i == Head(issues)
           iid == IssueId(TheRepo, i.number)
       IN (IF i.pull_request \/ i.number = 0 \/ i.user = "" THEN <<>>
           ELSE << NodeWrite(iid, "issue", [number |-> i.number, state |-> "open",
                                            labels |-> LabelNames(i.labels)]),
                   NodeWrite(UserId(i.user), "user", [login |-> i.user, type |-> "contributor"]),
                   EdgeWrite(UserId(i.user), iid, "AUTHORED", Some([createdAt |-> i.number])),
                   EdgeWrite(iid, RepoId(TheRepo), "IN_REPO", None) >>
                \o LabelWrites(iid, i.labels))
          \o IssueWrites(Tail(issues))

\* lines 739-804: the loop over the issues.  null_bodies are the numbers of
\* the issues whose 'body' is null: issue.get('body', '')[:500] (line 765)
\* then raises TypeError while the arguments of the first upsert_node of the
\* issue are built, and no try block stands around the loop.
RECURSIVE issue_loop(_, _)
issue_loop(issues, null_bodies) ==
  IF issues = <<>> THEN [ws |-> <<>>, raised |-> FALSE]
  ELSE LET i == Head(issues)
       IN IF i.pull_request \/ i.number = 0 \/ i.user = ""
          THEN issue_loop(Tail(issues), null_bodies)
          ELSE IF i.number \in null_bodies THEN [ws |-> <<>>, raised |-> TRUE]
          ELSE LET rest == issue_loop(Tail(issues), null_bodies)
               IN [ws |-> IssueWrites(<<i>>) \o rest.ws, raised |-> rest.raised]
\* the issues of a response that may come with a null body while a failure
\* may still be injected
NullBodies(k, issues) ==
  IF k > 0 THEN {{}} \cup {{issues[j].number} : j \in DOMAIN issues} ELSE {{}}

(***************************************************************************)
(* ingest_repository and scrape_pull_requests_comprehensive, one step per  *)
(* request with the store calls that follow it.                            *)
(***************************************************************************)
CheckpointEvery == 10

Modes == {"contributors", "prs", "full"}

Tabs == [nodes |-> nodes, edges |-> edges]
Bad(k, ws) == IF k > 0 THEN 0 .. Len(ws) ELSE {0}
Spent(bad) == IF bad = 0 THEN 0 ELSE 1

\* the checkpoint as persisted right now
Persisted == get_last_processed_pr(repos, RepoKey, TRUE)

FreshStats == [prs_total |-> 0, prs_processed |-> 0, prs_skipped |-> 0,
               last_pr_processed |-> 0, errors |-> <<>>]
FreshHist == [started |-> TRUE, startCp |-> 0, attempted |-> <<>>, processed |-> <<>>,
              skipped |-> {}, complete |-> {}, cps |-> <<>>, cpFailed |-> FALSE,
              fetchFailed |-> FALSE, ended |-> FALSE,
              hadSnap |-> FALSE, snap |-> <<>>,
              last |-> [seq |-> 0, ws |-> <<>>, bad |-> 0],
              lost |-> FALSE, prevLost |-> FALSE, budget |-> 0,
              exhausted |-> {}, outcome |-> "running",
              contributors |-> 0, halt |-> 0, reached |-> {}, null_bodies |-> {},
              final |-> "none"]

\* history: the store calls made by the step just taken, and which of them failed
Made(h, ws, bad) == [h EXCEPT !.last = [seq |-> @.seq + 1, ws |-> ws, bad |-> bad],
                             !.lost = @ \/ bad # 0]

\* the responses that use up the attempts of a request
Exhausted(responses) == responses \in {<<403, 403, 403>>, <<500, 500, 500>>}
\* history: the request of phase at has used up its attempts
Noted(h, responses, at) ==
  [h EXCEPT !.exhausted = IF Exhausted(responses) THEN @ \cup {at} ELSE @]
\* history: ingest_repository is over, with its statistics returned or with
\* an exception raised to lambda_handler
Over(h, res) == [h EXCEPT !.ended = TRUE,
                          !.outcome = IF res = "raise" THEN "raised" ELSE "returned"]

\* the tables without updatedAt
Contents(tabs) ==
  [nodes |-> [k \in DOMAIN tabs.nodes |->
                [nodeType |-> tabs.nodes[k].nodeType, data |-> tabs.nodes[k].data]],
   edges |-> [k \in DOMAIN tabs.edges |->
                [edgeType |-> tabs.edges[k].edgeType, properties |-> tabs.edges[k].properties]]]

\* lambda_handler calls ingest_repository for the repository
StartIngest ==
  /\ pc \in {"idle", "done", "killed"}
  /\ runs' = runs + 1
  /\ now' = now + 1
  /\ pc' = "repo"
  /\ stats' = FreshStats
  /\ hist' = [FreshHist EXCEPT !.hadSnap = (pc = "done" /\ hist.started),
                               !.snap = IF pc = "done" /\ hist.started
                                        THEN Contents(Tabs) ELSE <<>>,
                               !.prevLost = (pc = "done" /\ hist.started /\ hist.lost),
                               !.budget = faults]
  /\ all_prs' = <<>> /\ page' = 1 /\ idx' = 1 /\ last_processed_pr' = 0
  /\ UNCHANGED <<nodes, edges, calls, lastNode, lastEdge, lastCall, repos, prCount, noUser,
                 mode, faults, cfaults, news>>

\* lines 517-538: the repository record and the repo node
RepoInfo ==
  /\ pc = "repo"
  /\ \E r \in Responses(faults) : \E bad \in Bad(faults - Cost(r), RepoWrites) :
       LET res == github_request(r)
           tabs == IF res = "ok" THEN ApplyWrites(Tabs, RepoWrites, 1, bad, now) ELSE Tabs
       IN /\ nodes' = tabs.nodes
          /\ edges' = tabs.edges
          /\ faults' = faults - Cost(r) - (IF res = "ok" THEN Spent(bad) ELSE 0)
          /\ pc' = IF res = "ok" THEN "contributors" ELSE "done"
          /\ hist' = IF res = "ok" THEN Made(hist, RepoWrites, bad)
                      ELSE Over(Noted(hist, r, "repo"), res)
          \* lines 521-523: 'Could not fetch repo data', entered as number 0
          /\ stats' = IF res = "empty" THEN [stats EXCEPT !.errors = Append(@, 0)] ELSE stats
  /\ UNCHANGED <<now, calls, lastNode, lastEdge, lastCall, repos, prCount, noUser, mode,
                 last_processed_pr, all_prs, page, idx, runs, news, cfaults>>

\* lines 543-617: the contributors, in modes contributors and full
FetchContributors ==
  /\ pc = "contributors"
  /\ \E r \in (IF mode \in {"contributors", "full"} THEN Responses(faults) ELSE {Healthy}) :
       LET list == IF mode \in {"contributors", "full"} /\ github_request_paginated(r) = "ok"
                   THEN Contributors ELSE <<>>
       IN \E expired_at \in Expiry(faults - Cost(r), list) :
            LET late == IF expired_at < Len(list) THEN 1 ELSE 0
                loop == contributor_loop(list, 1, NoContributors, expired_at)
            IN \E bad \in Bad(faults - Cost(r) - late, loop.ws) :
                 LET tabs == ApplyWrites(Tabs, loop.ws, 1, bad, now)
                 IN /\ nodes' = tabs.nodes
                    /\ edges' = tabs.edges
                    /\ faults' = faults - Cost(r) - late - Spent(bad)
                    /\ stats' = [stats EXCEPT !.errors = @ \o loop.errors]
                    /\ hist' = [Made(Noted(hist, r, "contributors"), loop.ws, bad)
                                 EXCEPT !.contributors = loop.contributors,
                                        !.halt = loop.halt]
  /\ pc' = "prs"
  /\ UNCHANGED <<now, calls, lastNode, lastEdge, lastCall, repos, prCount, noUser, mode,
                 last_processed_pr, all_prs, page, idx, runs, news, cfaults>>

\* lines 619-626 and 286-305: in modes prs and full the scrape starts and
\* reads the checkpoint
StartScrape ==
  /\ pc = "prs"
  /\ IF mode \in {"prs", "full"}
     THEN \E ok \in StoreOk(cfaults) :
            /\ last_processed_pr' = get_last_processed_pr(repos, RepoKey, ok)
            /\ cfaults' = cfaults - (IF ok THEN 0 ELSE 1)
            /\ hist' = [hist EXCEPT !.startCp = Persisted, !.reached = @ \cup {"prs"}]
            /\ pc' = "fetch"
            \* line 294: the statistics of the scrape start empty, and line 623,
            \* stats.update(pr_stats), puts its 'errors' in the place of the
            \* list of ingest_repository
            /\ stats' = FreshStats
     ELSE /\ pc' = "issues"
          /\ UNCHANGED <<last_processed_pr, cfaults, hist, stats>>
  /\ UNCHANGED <<nodes, edges, now, calls, lastNode, lastEdge, lastCall, repos, prCount,
                 noUser, mode, all_prs, page, idx, faults, runs, news>>

\* lines 315-335: one page of the list of pull requests
FetchPage ==
  /\ pc = "fetch"
  /\ \E r \in Responses(faults) :
       LET res == github_request(r)
           prs == IF res = "ok" THEN Page(prCount, page) ELSE <<>>
           more == Len(prs) >= PerPage
       IN /\ faults' = faults - Cost(r)
          /\ IF res = "raise"
             THEN /\ pc' = "done"
                  /\ hist' = Over([Noted(hist, r, "fetch") EXCEPT !.fetchFailed = TRUE], res)
                  /\ UNCHANGED <<all_prs, page, stats>>
             ELSE /\ all_prs' = all_prs \o prs
                  /\ page' = IF more THEN page + 1 ELSE page
                  /\ pc' = IF more THEN "fetch" ELSE "loop"
                  /\ stats' = IF more THEN stats
                              ELSE [stats EXCEPT !.prs_total = Len(all_prs \o prs)]
                  /\ hist' = IF res = "ok" THEN hist
                              ELSE [Noted(hist, r, "fetch") EXCEPT !.fetchFailed = TRUE]
  /\ UNCHANGED <<nodes, edges, now, calls, lastNode, lastEdge, lastCall, repos, prCount,
                 noUser, mode, last_processed_pr, idx, runs, news, cfaults>>

\* A plausible slip: the resume test skips the pull requests above the
\* checkpoint only, and processes the checkpointed one again.
SkipsStrict(checkpoint, pr_number) == checkpoint > 0 /\ pr_number > checkpoint

\* line 346: the resume test
Skips(checkpoint, pr_number) == checkpoint > 0 /\ pr_number >= checkpoint

\* lines 338-398: the loop takes the next pull request: skipped by the resume
\* test, passed over for want of a user, or its node, user and edges written
LoopStep ==
  /\ pc = "loop"
  /\ idx <= Len(all_prs)
  /\ LET pr_number == all_prs[idx]
     IN IF pr_number = 0
        THEN /\ idx' = idx + 1
             /\ UNCHANGED <<nodes, edges, faults, pc, stats, hist>>
        ELSE IF Skips(last_processed_pr, pr_number)
        THEN /\ stats' = [stats EXCEPT !.prs_skipped = @ + 1]
             /\ hist' = [hist EXCEPT !.skipped = @ \cup {pr_number}]
             /\ idx' = idx + 1
             /\ UNCHANGED <<nodes, edges, faults, pc>>
        ELSE IF pr_number \in noUser
        THEN /\ hist' = [hist EXCEPT !.attempted = Append(@, pr_number)]
             /\ idx' = idx + 1
             /\ UNCHANGED <<nodes, edges, faults, pc, stats>>
        ELSE \E bad \in Bad(faults, CoreWrites(pr_number)) :
               LET tabs == ApplyWrites(Tabs, CoreWrites(pr_number), 1, bad, now)
               IN /\ nodes' = tabs.nodes
                  /\ edges' = tabs.edges
                  /\ faults' = faults - Spent(bad)
                  /\ hist' = Made([hist EXCEPT !.attempted = Append(@, pr_number)],
                                   CoreWrites(pr_number), bad)
                  /\ pc' = "comments"
                  /\ UNCHANGED <<idx, stats>>
  /\ UNCHANGED <<now, calls, lastNode, lastEdge, lastCall, repos, prCount, noUser, mode,
                 last_processed_pr, all_prs, page, runs, news, cfaults>>

\* One of the three detail requests of the pull request in hand and the store
\* calls made for its answer.  An exception of the request ends the pull
\* request: lines 474-477 record it and the loop goes on.
Detail(at, ws, then) ==
  /\ pc = at
  /\ LET pr_number == all_prs[idx]
     IN \E r \in Responses(faults) : \E bad \in Bad(faults - Cost(r), ws) :
          LET res == github_request(r)
              tabs == IF res = "ok" THEN ApplyWrites(Tabs, ws, 1, bad, now) ELSE Tabs
          IN /\ nodes' = tabs.nodes
             /\ edges' = tabs.edges
             /\ faults' = faults - Cost(r) - (IF res = "ok" THEN Spent(bad) ELSE 0)
             /\ IF res = "raise"
                THEN /\ stats' = [stats EXCEPT !.errors = Append(@, pr_number)]
                     /\ idx' = idx + 1
                     /\ pc' = "loop"
                     /\ hist' = Noted(hist, r, at)
                ELSE /\ pc' = then
                     /\ hist' = LET h == IF then = "count"
                                         THEN [hist EXCEPT !.complete = @ \cup {pr_number}]
                                         ELSE hist
                                IN IF res = "ok" THEN Made(h, ws, bad) ELSE Noted(h, r, at)
                     /\ UNCHANGED <<stats, idx>>
  /\ UNCHANGED <<now, calls, lastNode, lastEdge, lastCall, repos, prCount, noUser, mode,
                 last_processed_pr, all_prs, page, runs, news, cfaults>>

\* lines 400-419
FetchComments ==
  Detail("comments", CommentWrites(all_prs[idx], Comments(all_prs[idx])), "reviews")
\* lines 421-440
FetchReviews ==
  Detail("reviews", ReviewWrites(all_prs[idx], Reviews(all_prs[idx])), "files")
\* lines 442-461
FetchFiles ==
  Detail("files", FileWrites(all_prs[idx], Files(all_prs[idx])), "count")

\* A plausible slip: the checkpoint is saved every 11 pull requests.
CheckpointDueLate(prs_processed) == prs_processed % (CheckpointEvery + 1) = 0

\* line 467
CheckpointDue(prs_processed) == prs_processed % CheckpointEvery = 0

\* lines 463-472: the pull request is counted, and every tenth one saves the
\* checkpoint
Count ==
  /\ pc = "count"
  /\ LET pr_number == all_prs[idx]
         due == CheckpointDue(stats.prs_processed + 1)
     IN /\ stats' = [stats EXCEPT !.prs_processed = @ + 1, !.last_pr_processed = pr_number]
        /\ \E ok \in (IF due THEN StoreOk(cfaults) ELSE {TRUE}) :
             /\ repos' = IF due THEN update_checkpoint(repos, RepoKey, pr_number, now, ok)
                         ELSE repos
             /\ cfaults' = cfaults - (IF ok THEN 0 ELSE 1)
             /\ hist' = [hist EXCEPT !.processed = Append(@, pr_number),
                                     !.cps = IF due /\ ok THEN Append(@, pr_number) ELSE @,
                                     !.cpFailed = @ \/ ~ok]
  /\ idx' = idx + 1
  /\ pc' = "loop"
  /\ UNCHANGED <<nodes, edges, now, calls, lastNode, lastEdge, lastCall, prCount, noUser,
                 mode, last_processed_pr, all_prs, page, faults, runs, news>>

\* lines 479-483: the final checkpoint, when a pull request was processed
FinalCheckpoint ==
  /\ pc = "loop"
  /\ idx > Len(all_prs)
  /\ LET due == stats.prs_processed > 0
     IN \E ok \in (IF due THEN StoreOk(cfaults) ELSE {TRUE}) :
          /\ repos' = IF due THEN update_checkpoint(repos, RepoKey, stats.last_pr_processed, now, ok)
                      ELSE repos
          /\ cfaults' = cfaults - (IF ok THEN 0 ELSE 1)
          /\ hist' = [hist EXCEPT !.cps = IF due /\ ok THEN Append(@, stats.last_pr_processed) ELSE @,
                                  !.cpFailed = @ \/ ~ok,
                                  !.final = IF ~due THEN "left" ELSE IF ok THEN "saved"
                                            ELSE "failed"]
  /\ pc' = "issues"
  /\ UNCHANGED <<nodes, edges, now, calls, lastNode, lastEdge, lastCall, prCount, noUser,
                 mode, last_processed_pr, all_prs, page, idx, stats, faults, runs, news>>

\* lines 733-812: the issues, in every mode
FetchIssues ==
  /\ pc = "issues"
  /\ \E r \in Responses(faults) :
       LET res == github_request(r)
           issues == IF res = "ok" THEN IssueList(prCount) ELSE <<>>
       IN \E null_bodies \in NullBodies(faults - Cost(r), issues) :
            LET odd == IF null_bodies = {} THEN 0 ELSE 1
                loop == issue_loop(issues, null_bodies)
                end == IF loop.raised THEN "raise" ELSE res
            IN \E bad \in Bad(faults - Cost(r) - odd, loop.ws) :
                 LET tabs == ApplyWrites(Tabs, loop.ws, 1, bad, now)
                 IN /\ nodes' = tabs.nodes
                    /\ edges' = tabs.edges
                    /\ faults' = faults - Cost(r) - odd - Spent(bad)
                    /\ hist' = Made(Over([Noted(hist, r, "issues")
                                           EXCEPT !.reached = @ \cup {"issues"},
                                                  !.null_bodies = null_bodies], end),
                                    loop.ws, bad)
  /\ pc' = "done"
  /\ UNCHANGED <<now, calls, lastNode, lastEdge, lastCall, repos, prCount, noUser, mode,
                 last_processed_pr, all_prs, page, idx, stats, runs, news, cfaults>>

\* the invocation is terminated from outside (timeout) between two steps:
\* what it held in memory is gone, the tables stay as they are
Interrupt ==
  /\ pc \notin {"idle", "done", "killed"}
  /\ pc' = "killed"
  /\ last_processed_pr' = 0 /\ all_prs' = <<>> /\ page' = 1 /\ idx' = 1
  /\ stats' = FreshStats
  /\ hist' = [started |-> FALSE]
  /\ UNCHANGED <<storeVars, repos, prCount, noUser, mode, faults, cfaults, runs, news>>

\* a pull request is opened upstream; the crawl can tell only at its next
\* list fetch, so the step is taken right before one
NewPR ==
  /\ pc \in {"idle", "done", "killed", "fetch"}
  /\ news < MaxNew
  /\ news' = news + 1
  /\ prCount' = prCount + 1
  /\ UNCHANGED <<storeVars, repos, noUser, mode, pc, last_processed_pr, all_prs, page, idx,
                 stats, faults, cfaults, runs, hist>>

Steps ==
  \/ RepoInfo \/ FetchContributors \/ StartScrape \/ FetchPage
  \/ LoopStep \/ FetchComments \/ FetchReviews \/ FetchFiles \/ Count
  \/ FinalCheckpoint \/ FetchIssues

\* the repository's entry in the repos table, without a checkpoint
Entry == [org |-> "o", repo |-> "r", enabled |-> TRUE]
WithCheckpoint(k) == [org |-> "o", repo |-> "r", enabled |-> TRUE, lastProcessedPR |-> k]
Table(item) == [k \in {RepoKey} |-> item]

EmptyStore ==
  /\ nodes = <<>> /\ edges = <<>> /\ now = 0 /\ calls = 0
  /\ lastNode = <<>> /\ lastEdge = <<>> /\ lastCall = [op |-> "none"]

IdleRun ==
  /\ pc = "idle" /\ last_processed_pr = 0 /\ all_prs = <<>> /\ page = 1 /\ idx = 1
  /\ stats = FreshStats /\ runs = 0 /\ news = 0 /\ hist = [started |-> FALSE]

\* Crawl: runs of mode prs over a fresh store, interrupted and resumed, with
\* failures injected and pull requests opened in between.
CrawlInit ==
  /\ EmptyStore /\ IdleRun
  /\ repos = Table(Entry)
  /\ prCount \in 0 .. MaxPR
  /\ noUser \in SUBSET ({GhostPR} \cap 1 .. prCount)
  /\ mode = "prs"
  /\ faults = MaxFaults
  /\ cfaults = 0

CrawlNext == (runs < MaxRuns /\ StartIngest) \/ Steps \/ Interrupt \/ NewPR

SpecCrawl == CrawlInit /\ [][CrawlNext]_vars

\* Resume: one run of mode prs that finds any checkpoint, or none, in the
\* repos table.
ResumeInit ==
  /\ EmptyStore /\ IdleRun
  /\ prCount \in 0 .. LongPR
  /\ repos \in {<<>>, Table(Entry)} \cup {Table(WithCheckpoint(k)) : k \in 0 .. prCount + 1}
  /\ noUser \in SUBSET ({GhostPR} \cap 1 .. prCount)
  /\ mode = "prs"
  /\ faults = IF prCount <= MaxPR THEN MaxFaults ELSE 0
  /\ cfaults = MaxFaults

ResumeNext == (runs = 0 /\ StartIngest) \/ Steps \/ (pc = "fetch" /\ NewPR)

SpecResume == ResumeInit /\ [][ResumeNext]_vars

\* Ingest: runs of ingest_repository in one mode, one after the other, over
\* upstream data that stays as it is, with no failure injected.
IngestInit ==
  /\ EmptyStore /\ IdleRun
  /\ repos = Table(Entry)
  /\ prCount \in 0 .. MaxPR
  /\ noUser \in SUBSET ({GhostPR} \cap 1 .. prCount)
  /\ mode \in Modes
  /\ faults = 0
  /\ cfaults = 0

IngestNext == (runs < MaxRuns /\ StartIngest) \/ Steps

SpecIngest == IngestInit /\ [][IngestNext]_vars

\* Faulty: runs of ingest_repository in any mode, one after the other, over
\* upstream data that stays as it is, with failures injected.
FaultyInit ==
  /\ EmptyStore /\ IdleRun
  /\ repos = Table(Entry)
  /\ prCount \in 0 .. MaxPR
  /\ noUser \in SUBSET ({GhostPR} \cap 1 .. prCount)
  /\ mode \in Modes
  /\ faults = MaxFaults
  /\ cfaults = 0

FaultyNext == (runs < MaxRuns /\ StartIngest) \/ Steps

SpecFaulty == FaultyInit /\ [][FaultyNext]_vars

(***************************************************************************)
(* Properties of the crawl and of the ingestion.                           *)
(***************************************************************************)
IsStrictlyDecreasing(s) == \A i, j \in DOMAIN s : i < j => s[i] > s[j]

\* the loop of the run is over, its list fetch got every page of an upstream
\* that did not change meanwhile, and the checkpoint it read is the persisted one
LoopOver ==
  /\ hist.started /\ pc = "issues"
  /\ ~hist.fetchFailed /\ news = 0
  /\ last_processed_pr = hist.startCp

AllWrites(n) ==
  CoreWrites(n) \o CommentWrites(n, Comments(n)) \o ReviewWrites(n, Reviews(n))
    \o FileWrites(n, Files(n))
Written(w) ==
  IF w.op = "node" THEN w.id \in DOMAIN nodes
  ELSE EdgeKey(w.from, w.to, w.type) \in DOMAIN edges
FullyProcessed(n) == \A i \in DOMAIN AllWrites(n) : Written(AllWrites(n)[i])

\* C2: every pull request a run skips on account of the checkpoint is fully
\* processed in the store: its node, its AUTHORED and IN_REPO edges, its
\* comments, reviews and files are written.
SkippedWereProcessed ==
  hist.started => \A n \in hist.skipped : FullyProcessed(n)

\* the pull requests this run has processed to the end that a resume from the
\* persisted checkpoint would not skip
Uncovered == {n \in hist.complete : ~Skips(Persisted, n)}

DescendingStrictly ==
  hist.started =>
    /\ IsStrictlyDecreasing(hist.processed)
    /\ IsStrictlyDecreasing(hist.cps)

\* the record a store call leaves under its key, and the place it is kept
WriteKey(w) == IF w.op = "node" THEN <<"node", w.id>>
               ELSE <<"edge", EdgeKey(w.from, w.to, w.type)>>
Kept(tabs, w) ==
  IF w.op = "node"
  THEN IF w.id \in DOMAIN tabs.nodes THEN <<tabs.nodes[w.id]>> ELSE <<>>
  ELSE IF EdgeKey(w.from, w.to, w.type) \in DOMAIN tabs.edges
       THEN <<tabs.edges[EdgeKey(w.from, w.to, w.type)]>> ELSE <<>>
Asked(w, ts) ==
  IF w.op = "node" THEN NodeItem(w.id, w.type, w.data, ts)
  ELSE EdgeItem(w.from, w.to, w.type, w.props, ts)
\* where a step of the run leads when nothing stops it
Succ(at) ==
  CASE at = "repo" -> "contributors"
    [] at = "contributors" -> "prs"
    [] at = "loop" -> "comments"
    [] at = "comments" -> "reviews"
    [] at = "reviews" -> "files"
    [] at = "files" -> "count"
    [] at = "issues" -> "done"
    [] OTHER -> "none"

\* a step in which one store call failed: the key of the failed call is as it
\* was (unless another call of the step wrote it), every other call of the
\* step is made and leaves its record, no error is recorded for it (the only
\* entry the step may add is the halt of the contributor loop) and the run
\* goes on where it would have gone
StepContained ==
  (hist.started /\ hist'.started /\ hist'.last.seq # hist.last.seq /\ hist'.last.bad # 0) =>
    LET ws == hist'.last.ws
        b == hist'.last.bad
        others == DOMAIN ws \ {b}
        after == [nodes |-> nodes', edges |-> edges']
    IN /\ (\A i \in others : WriteKey(ws[i]) # WriteKey(ws[b]))
            => Kept(after, ws[b]) = Kept(Tabs, ws[b])
       /\ \A i \in others :
            (\A j \in others : j > i => WriteKey(ws[j]) # WriteKey(ws[i]))
              => Kept(after, ws[i]) = <<Asked(ws[i], now)>>
       /\ stats'.errors = IF pc = "contributors" /\ hist'.halt # 0
                          THEN Append(stats.errors, hist'.halt) ELSE stats.errors
       /\ pc' = Succ(pc)

\* C11: when one upsert_node or upsert_edge call of a run fails, no exception
\* reaches the caller, the failed call leaves the store as it was for its
\* key, every other write of the step is made and the run goes on with the
\* step that follows, up to the last one, after which it has ended and
\* returned its statistics.
WriteFailureContained ==
  /\ [][StepContained]_vars
  /\ []((hist.started /\ pc = "done") => hist.ended)

\* C11 witness: the put_item of a pull request's node has failed, the node is
\* missing, the author's node is written and the run has gone on to the
\* comments of the pull request.
WriteFailureContainedWitness ==
  /\ hist.started /\ pc = "comments" /\ hist.last.bad = 1
  /\ PrId(TheRepo, all_prs[idx]) \notin DOMAIN nodes
  /\ UserId(PrAuthor(all_prs[idx])) \in DOMAIN nodes

\* the store calls a run of the mode makes for the upstream data
ExpectedWrites ==
  RepoWrites
    \o (IF mode \in {"contributors", "full"} THEN ContributorWrites(Contributors) ELSE <<>>)
    \o IssueWrites(IssueList(prCount))
ExpectedPRs == IF mode \in {"prs", "full"} THEN (1 .. prCount) \ noUser ELSE {}

\* C12: when a run in which an upsert failed is followed by a run over the
\* same upstream data in which nothing fails, every node and edge of the
\* upstream data is in the store at the end of the second run.
LossHeals ==
  (hist.started /\ pc = "done" /\ hist.hadSnap /\ hist.prevLost
     /\ ~hist.lost /\ faults = hist.budget)
    => /\ \A i \in DOMAIN ExpectedWrites : Written(ExpectedWrites[i])
       /\ \A n \in ExpectedPRs : FullyProcessed(n)

\* C6: a second run in the same mode over unchanged upstream data leaves the
\* nodes table and the edges table with the keys, nodeType, data and
\* properties they had after the first run.
SecondRunSame ==
  (hist.started /\ hist.hadSnap /\ pc = "done") => Contents(Tabs) = hist.snap

(***************************************************************************)
(* The store on its own: any sequence of upsert_node calls (SpecNodes) or  *)
(* of upsert_edge calls (SpecEdges), with arguments drawn from small sets. *)
(***************************************************************************)
StoreNodeIds == {UserId("alice"), LabelId(TheRepo, <<"bug">>)}
StoreNodeTypes == {"user", "label"}
StoreData == {[login |-> "alice"],
              [login |-> "alice", contributions |-> 5],
              [name |-> "bug", color |-> "red"]}

StoreFromIds == {UserId("alice"), IssueId(TheRepo, 1)}
\* the second label is named "bug#HAS_LABEL": its id is the first one's
\* toIdEdgeType
StoreToIds == {LabelId(TheRepo, <<"bug">>), LabelId(TheRepo, <<"bug", "#", "HAS_LABEL">>)}
StoreEdgeTypes == {"HAS_LABEL", "AUTHORED"}
StoreProps == {None, Some([contributions |-> 5])}

Remember(h, k, v) == [j \in DOMAIN h \cup {k} |-> IF j = k THEN v ELSE h[j]]

CrawlIdle ==
  /\ repos = <<>>
  /\ prCount = 0
  /\ noUser = {}
  /\ mode = "prs"
  /\ pc = "idle"
  /\ last_processed_pr = 0
  /\ all_prs = <<>>
  /\ page = 1
  /\ idx = 1
  /\ stats = [prs_total |-> 0, prs_processed |-> 0, prs_skipped |-> 0,
              last_pr_processed |-> 0, errors |-> <<>>]
  /\ faults = 0
  /\ cfaults = 0
  /\ runs = 0
  /\ news = 0
  /\ hist = [started |-> FALSE]

StoreInit ==
  /\ CrawlIdle
  /\ nodes = <<>>
  /\ edges = <<>>
  /\ now = 0
  /\ calls = 0
  /\ lastNode = <<>>
  /\ lastEdge = <<>>
  /\ lastCall = [op |-> "none"]

StoreUpsertNode ==
  /\ calls < MaxCalls
  /\ \E id \in StoreNodeIds, ty \in StoreNodeTypes, d \in StoreData, ok \in BOOLEAN :
       /\ nodes' = upsert_node(nodes, id, ty, d, now, ok)
       /\ lastNode' = IF ok THEN Remember(lastNode, id, [nodeType |-> ty, data |-> d, updatedAt |-> now])
                             ELSE lastNode
       /\ lastCall' = [op |-> "upsert_node", id |-> id, data |-> d, ok |-> ok, before |-> nodes]
  /\ now' = now + 1
  /\ calls' = calls + 1
  /\ UNCHANGED <<edges, lastEdge, crawlVars>>

StoreUpsertEdge ==
  /\ calls < MaxCalls
  /\ \E f \in StoreFromIds, t \in StoreToIds, ty \in StoreEdgeTypes,
        p \in StoreProps, ok \in BOOLEAN :
       /\ edges' = upsert_edge(edges, f, t, ty, p, now, ok)
       /\ lastEdge' = IF ok THEN Remember(lastEdge, <<f, t, ty>>,
                                          [properties |-> OrEmpty(p), updatedAt |-> now])
                             ELSE lastEdge
       /\ lastCall' = [op |-> "upsert_edge", triple |-> <<f, t, ty>>, ok |-> ok, before |-> edges]
  /\ now' = now + 1
  /\ calls' = calls + 1
  /\ UNCHANGED <<nodes, lastNode, crawlVars>>

SpecNodes == StoreInit /\ [][StoreUpsertNode]_vars
SpecEdges == StoreInit /\ [][StoreUpsertEdge]_vars

Triple(e) == <<e.fromId, e.toId, e.edgeType>>

\* What the history says the edges table should answer: the triples upserted
\* successfully, each with the arguments of its last successful upsert.
UpsertedEdges(S) ==
  {[triple |-> tr, properties |-> lastEdge[tr].properties, updatedAt |-> lastEdge[tr].updatedAt] :
     tr \in {x \in DOMAIN lastEdge : S[x]}}
Answer(r) ==
  {[triple |-> Triple(r[i]), properties |-> r[i].properties, updatedAt |-> r[i].updatedAt] :
     i \in DOMAIN r}
NoDuplicates(r) == \A i, j \in DOMAIN r : i # j => r[i] # r[j]

\* C7: the edges table holds exactly one record per (fromId, toId, edgeType)
\* upserted successfully, carrying the properties and updatedAt of the last
\* such upsert; an upsert of one triple leaves the record of every other
\* triple, the same pair under another edge type included, as it was.
EdgeTripleUnique ==
  /\ Cardinality(DOMAIN edges) = Cardinality(DOMAIN lastEdge)
  /\ {Triple(e) : e \in Items(edges)} = DOMAIN lastEdge
  /\ \A e \in Items(edges) :
       /\ e.properties = lastEdge[Triple(e)].properties
       /\ e.updatedAt = lastEdge[Triple(e)].updatedAt
  /\ lastCall.op = "upsert_edge" =>
       \A k \in DOMAIN lastCall.before :
          Triple(lastCall.before[k]) # lastCall.triple =>
             k \in DOMAIN edges /\ edges[k] = lastCall.before[k]

\* C7 witness: a triple upserted again with other properties while the same
\* pair of nodes also carries an edge of another type.
EdgeTripleUniqueWitness ==
  /\ lastCall.op = "upsert_edge" /\ lastCall.ok
  /\ \E k \in DOMAIN lastCall.before :
       /\ Triple(lastCall.before[k]) = lastCall.triple
       /\ lastCall.before[k].properties # edges[k].properties
  /\ \E e \in Items(edges) :
       /\ e.fromId = lastCall.triple[1] /\ e.toId = lastCall.triple[2]
       /\ e.edgeType # lastCall.triple[3]

\* C8: the nodes table holds one record per nodeId upserted successfully, with
\* the nodeType and the whole data mapping of the last successful upsert.
NodeLastUpsertWins ==
  /\ DOMAIN nodes = DOMAIN lastNode
  /\ Cardinality({it.nodeId : it \in Items(nodes)}) = Cardinality(DOMAIN nodes)
  /\ \A id \in DOMAIN nodes :
       /\ nodes[id].nodeId = id
       /\ nodes[id].nodeType = lastNode[id].nodeType
       /\ nodes[id].data = lastNode[id].data
       /\ nodes[id].updatedAt = lastNode[id].updatedAt

\* C8 witness: a successful upsert over a node whose stored data had a field
\* the new data does not supply.
NodeLastUpsertWinsWitness ==
  /\ lastCall.op = "upsert_node" /\ lastCall.ok
  /\ lastCall.id \in DOMAIN lastCall.before
  /\ \E f \in DOMAIN lastCall.before[lastCall.id].data : f \notin DOMAIN lastCall.data

\* C9: get_outgoing_edges(fromId, edgeType) answers exactly the upserted edges
\* out of fromId of that type, and without an edge type all edges out of
\* fromId.
OutgoingExact ==
  \A f \in StoreFromIds :
    /\ LET r == get_outgoing_edges(edges, f, "", TRUE)
       IN Answer(r) = UpsertedEdges([tr \in DOMAIN lastEdge |-> tr[1] = f]) /\ NoDuplicates(r)
    /\ \A ty \in StoreEdgeTypes :
         LET r == get_outgoing_edges(edges, f, ty, TRUE)
         IN /\ Answer(r) = UpsertedEdges([tr \in DOMAIN lastEdge |-> tr[1] = f /\ tr[3] = ty])
            /\ NoDuplicates(r)

\* C10: a successful get_incoming_edges(toId, edgeType) answers exactly the
\* upserted edges into toId of that type, and without an edge type all edges
\* into toId, of every type.
IncomingExact ==
  \A t \in StoreToIds :
    /\ LET r == get_incoming_edges(edges, t, "", TRUE)
       IN Answer(r) = UpsertedEdges([tr \in DOMAIN lastEdge |-> tr[2] = t]) /\ NoDuplicates(r)
    /\ \A ty \in StoreEdgeTypes :
         LET r == get_incoming_edges(edges, t, ty, TRUE)
         IN /\ Answer(r) = UpsertedEdges([tr \in DOMAIN lastEdge |-> tr[2] = t /\ tr[3] = ty])
            /\ NoDuplicates(r)

\* C10 witness: a node with incoming edges of two types, so that the filter
\* has something to drop.
IncomingExactWitness ==
  \E e1, e2 \in Items(edges) :
    /\ e1.toId = e2.toId /\ e1.edgeType # e2.edgeType
    /\ Len(get_incoming_edges(edges, e1.toId, e1.edgeType, TRUE)) >= 1
    /\ Len(get_incoming_edges(edges, e1.toId, "", TRUE)) >= 2

(***************************************************************************)
(* Graph queries (graph-tool).  A query reads the nodes and edges tables;  *)
(* ok = FALSE is the call whose store reads raise, which get_node and      *)
(* get_incoming_edges answer with None and [].                             *)
(***************************************************************************)
\* Python's None where a string or a number is expected
PyNone == "None"
\* dict.get(key) and dict.get(key, default)
Get(d, f) == IF f \in DOMAIN d THEN d[f] ELSE PyNone
GetOr(d, f, default) == IF f \in DOMAIN d THEN d[f] ELSE default

\* seq[:n]
Slice(seq, n) ==
  IF n >= 0 THEN SubSeq(seq, 1, IF n < Len(seq) THEN n ELSE Len(seq))
  ELSE SubSeq(seq, 1, IF Len(seq) + n > 0 THEN Len(seq) + n ELSE 0)

\* A plausible slip: an entry goes before the entries of equal key.
RECURSIVE InsertIdxBefore(_, _, _)
InsertIdxBefore(sorted, x, keys) ==
  IF sorted = <<>> THEN <<x>>
  ELSE IF keys[Head(sorted)] > keys[x]
       THEN <<Head(sorted)>> \o InsertIdxBefore(Tail(sorted), x, keys)
       ELSE <<x>> \o sorted

\* list.sort(key=..., reverse=True) is stable: entry x goes after every entry
\* whose key is at least its own
RECURSIVE InsertIdx(_, _, _)
InsertIdx(sorted, x, keys) ==
  IF sorted = <<>> THEN <<x>>
  ELSE IF keys[Head(sorted)] >= keys[x]
       THEN <<Head(sorted)>> \o InsertIdx(Tail(sorted), x, keys)
       ELSE <<x>> \o sorted
RECURSIVE SortIdx(_, _)
SortIdx(keys, n) == IF n = 0 THEN <<>> ELSE InsertIdx(SortIdx(keys, n - 1), n, keys)
\* seq sorted by the keys (keys[i] is the key of seq[i]), largest first
sort_reverse(seq, keys) ==
  LET p == SortIdx(keys, Len(seq)) IN [i \in 1 .. Len(seq) |-> seq[p[i]]]

\* lines 370-376
MockContributors ==
  << [userId |-> UserId("mrubens"), login |-> "mrubens", url |-> "https://github.com/mrubens",
      avatarUrl |-> "", contributions |-> 1854],
     [userId |-> UserId("saoudrizwan"), login |-> "saoudrizwan",
      url |-> "https://github.com/saoudrizwan", avatarUrl |-> "", contributions |-> 962],
     [userId |-> UserId("cte"), login |-> "cte", url |-> "https://github.com/cte",
      avatarUrl |-> "", contributions |-> 587],
     [userId |-> UserId("daniel-lxs"), login |-> "daniel-lxs",
      url |-> "https://github.com/daniel-lxs", avatarUrl |-> "", contributions |-> 211],
     [userId |-> UserId("hannesrudolph"), login |-> "hannesrudolph",
      url |-> "https://github.com/hannesrudolph", avatarUrl |-> "", contributions |-> 129] >>

\* lines 384-402: the entry of one CONTRIBUTES_TO edge whose user node is found
ContributorEntry(tabs, edge) ==
  LET user_data == GetOr(tabs.nodes[edge.fromId], "data", EmptyDict)
  IN [userId |-> edge.fromId,
      login |-> Get(user_data, "login"),
      url |-> Get(user_data, "url"),
      avatarUrl |-> Get(user_data, "avatarUrl"),
      contributions |-> GetOr(edge.properties, "contributions", 0)]

get_top_contributors(tabs, repo, limit, ok) ==
  LET repo_id == RepoId(repo)
      found == get_incoming_edges(tabs.edges, repo_id, "CONTRIBUTES_TO", ok)
  IN IF found = <<>>
     THEN [repository |-> repo,
           contributors |-> Slice(MockContributors, limit),
           total |-> Len(MockContributors),
           note |-> "Mock data - run ingestion to get real data"]
     ELSE LET with_node == SelectSeq(found, LAMBDA e : get_node(tabs.nodes, e.fromId, ok) # None)
              contributors == [i \in DOMAIN with_node |-> ContributorEntry(tabs, with_node[i])]
              sorted == sort_reverse(contributors,
                                     [i \in DOMAIN contributors |-> contributors[i].contributions])
          IN [repository |-> repo,
              contributors |-> Slice(sorted, limit),
              total |-> Len(sorted)]

\* GitHub as the graph tool sees it: world[key] is the number of open issues
\* the request for the key answers with (key: a label, or "" for the recent
\* open issues); -1 is a request that raises
IssueSummaries(count) == [i \in 1 .. (IF count < 5 THEN count ELSE 5) |-> [number |-> i]]
check_github_issues(world, key) ==
  IF world[key] < 0 THEN [found |-> FALSE, count |-> 0, issues |-> <<>>]
  ELSE [found |-> world[key] > 0, count |-> world[key], issues |-> IssueSummaries(world[key])]

GithubKeys == {"", "good first issue", "query"} \cup
              {"help wanted", "easy", "beginner", "documentation", "bug", "enhancement"}
World(key, n) == [k \in GithubKeys |-> IF k = key THEN n ELSE 0]
Worlds == {World("", 0), World("", 1), World("bug", 2), World("good first issue", 6),
           World("query", 1), [k \in GithubKeys |-> -1]}

\* label.lower(), on the label names of the model
Lower(text) == IF text = "Good First Issue" THEN "good first issue" ELSE text
\* 'good first issue' in label.lower()
IsGoodFirst(label) == \E i \in DOMAIN label : Lower(label[i]) = "good first issue"

beginner_labels == <<"help wanted", "easy", "beginner", "documentation", "bug", "enhancement">>

\* lines 155-213: the answer for labels that hold 'good first issue'
good_first_issues(tabs, issue_labels, repo, world, ok) ==
  LET github_issues == check_github_issues(world, "good first issue")
      top == get_top_contributors(tabs, repo, 3, ok).contributors
      mentors == [i \in DOMAIN Slice(top, 3) |->
                    [login |-> top[i].login, url |-> top[i].url,
                     contributions |-> top[i].contributions, role |-> "mentor"]]
      labelled == SelectSeq(beginner_labels, LAMBDA l : check_github_issues(world, l).found)
      by_label == [i \in DOMAIN labelled |->
                     [label |-> labelled[i],
                      count |-> check_github_issues(world, labelled[i]).count,
                      issues |-> Slice(check_github_issues(world, labelled[i]).issues, 3)]]
      recent == check_github_issues(world, "")
      alternative_suggestions ==
        IF github_issues.found THEN <<>>
        ELSE IF by_label # <<>> THEN by_label
        ELSE IF recent.found
        THEN << [label |-> "recent issues", count |-> recent.count,
                 issues |-> Slice(recent.issues, 5)] >>
        ELSE <<>>
  IN [labels |-> issue_labels,
      repository |-> repo,
      githubIssuesFound |-> github_issues.found,
      issueCount |-> github_issues.count,
      issues |-> github_issues.issues,
      alternativeSuggestions |-> alternative_suggestions,
      mentors |-> mentors,
      message |-> IF github_issues.found
                  THEN <<"Found ", ToString(github_issues.count), " good first issues">>
                  ELSE <<"No good first issues currently available">>,
      suggestion |-> IF ~github_issues.found
                     THEN "Check back later or look for other beginner-friendly issues"
                     ELSE "These issues are great for getting started!",
      contributionIdeas |-> IF ~github_issues.found
                            THEN <<"Documentation improvements", "Bug fixes", "Adding tests",
                                   "Code formatting", "Translation", "Example code">>
                            ELSE <<>>]

\* lines 240-248: the authors of the issues the edges come from, one entry per
\* AUTHORED edge, in the order the loop meets them
RECURSIVE Authors(_, _, _)
Authors(tabs, label_edges, ok) ==
  IF label_edges = <<>> THEN <<>>
  ELSE LET issue_edges == get_incoming_edges(tabs.edges, Head(label_edges).fromId, "AUTHORED", ok)
       IN [i \in DOMAIN issue_edges |-> issue_edges[i].fromId]
          \o Authors(tabs, Tail(label_edges), ok)
\* the keys of a dict in insertion order
RECURSIVE FirstSeen(_)
FirstSeen(seq) ==
  IF seq = <<>> THEN <<>>
  ELSE LET init == FirstSeen(SubSeq(seq, 1, Len(seq) - 1))
       IN IF seq[Len(seq)] \in Range(init) THEN init ELSE Append(init, seq[Len(seq)])
CountIn(seq, x) == Cardinality({i \in DOMAIN seq : seq[i] = x})

\* lines 233-263: the experts of one label
label_experts_of(tabs, repo, label, ok) ==
  LET label_edges == get_incoming_edges(tabs.edges, LabelId(repo, label), "HAS_LABEL", ok)
      authors == Authors(tabs, Slice(label_edges, 20), ok)
      users == FirstSeen(authors)
      top_users == Slice(sort_reverse(users, [i \in DOMAIN users |-> CountIn(authors, users[i])]), 3)
      known == SelectSeq(top_users,
                         LAMBDA u : /\ get_node(tabs.nodes, u, ok) # None
                                    /\ Get(tabs.nodes[u], "nodeType") = "user")
  IN [i \in DOMAIN known |->
        [login |-> Get(tabs.nodes[known[i]].data, "login"),
         url |-> Get(tabs.nodes[known[i]].data, "url"),
         issueCount |-> CountIn(authors, known[i]),
         expertise |-> label]]

find_reviewers(tabs, issue_labels, repo, world, ok) ==
  IF \E i \in DOMAIN issue_labels : IsGoodFirst(issue_labels[i])
  THEN good_first_issues(tabs, issue_labels, repo, world, ok)
  ELSE LET top == get_top_contributors(tabs, repo, 5, ok).contributors
           reviewers == [i \in DOMAIN top |->
                           [login |-> top[i].login, url |-> top[i].url,
                            contributions |-> top[i].contributions,
                            expertise |-> <<"general contributor">>,
                            reason |-> <<"Top contributor with ", ToString(top[i].contributions),
                                         " contributions">>]]
           label_experts ==
             IF issue_labels # <<>> /\ issue_labels # << <<"good first issue">> >>
             THEN [l \in Range(issue_labels) |-> label_experts_of(tabs, repo, l, ok)]
             ELSE EmptyDict
       IN [labels |-> issue_labels,
           repository |-> repo,
           suggestedReviewers |-> Slice(reviewers, 5),
           labelExperts |-> label_experts,
           note |-> IF reviewers # <<>> THEN "Based on contribution history"
                    ELSE "No contributor data available yet"]

\* A plausible slip: the shared labels are set against the labels of both issues.
similarity_score_union(issue_labels, related_labels) ==
  LET shared_labels == Range(issue_labels) \cap Range(related_labels)
      either == Range(issue_labels) \cup Range(related_labels)
  IN [num |-> Cardinality(shared_labels),
      den |-> IF Cardinality(either) > 1 THEN Cardinality(either) ELSE 1]

\* lines 318-319
similarity_score(issue_labels, related_labels) ==
  LET shared_labels == Range(issue_labels) \cap Range(related_labels)
  IN [num |-> Cardinality(shared_labels),
      den |-> IF Len(issue_labels) > 1 THEN Len(issue_labels) ELSE 1]

\* lines 313-330: the entry of one candidate whose node is found
RelatedEntry(tabs, issue_labels, related_issue_id) ==
  LET related_data == GetOr(tabs.nodes[related_issue_id], "data", EmptyDict)
      related_labels == GetOr(related_data, "labels", <<>>)
  IN [issueId |-> related_issue_id,
      number |-> Get(related_data, "number"),
      title |-> Get(related_data, "title"),
      state |-> Get(related_data, "state"),
      url |-> Get(related_data, "url"),
      labels |-> related_labels,
      sharedLabels |-> SetToSeq(Range(issue_labels) \cap Range(related_labels)),
      similarityScore |-> similarity_score(issue_labels, related_labels)]

\* lines 304-311: the candidates the loop looks at for one label
Candidates(tabs, issue_id, repo, label, ok) ==
  SelectSeq(Slice(get_incoming_edges(tabs.edges, LabelId(repo, label), "HAS_LABEL", ok), 10),
            LAMBDA e : e.fromId # issue_id)

\* lines 300-330: related_issues before the sort, from label number i on
RECURSIVE RelatedFrom(_, _, _, _, _, _)
RelatedFrom(tabs, issue_id, repo, issue_labels, i, ok) ==
  IF i > Len(issue_labels) THEN <<>>
  ELSE LET found == SelectSeq(Candidates(tabs, issue_id, repo, issue_labels[i], ok),
                              LAMBDA e : get_node(tabs.nodes, e.fromId, ok) # None)
       IN [k \in DOMAIN found |-> RelatedEntry(tabs, issue_labels, found[k].fromId)]
          \o RelatedFrom(tabs, issue_id, repo, issue_labels, i + 1, ok)

\* A plausible slip: the duplicates are left in.
UniqueNone(issues) == issues

\* lines 336-341
RECURSIVE Unique(_)
Unique(issues) ==
  IF issues = <<>> THEN <<>>
  ELSE LET init == Unique(SubSeq(issues, 1, Len(issues) - 1))
           last == issues[Len(issues)]
       IN IF \E k \in DOMAIN init : init[k].issueId = last.issueId THEN init
          ELSE Append(init, last)

NotFoundTips ==
  <<"Check the repository's GitHub Issues tab",
    "Look for issues with similar labels or topics",
    "Search for keywords related to your problem",
    "Consider asking the maintainers for guidance">>

find_related_issues(tabs, issue_id, repo, ok) ==
  LET issue_node == get_node(tabs.nodes, issue_id, ok)
  IN IF issue_node = None
     THEN [error |-> <<"Issue ">> \o issue_id \o <<" not found">>,
           suggestion |-> <<"Try browsing the GitHub issues page for ">> \o repo
                          \o <<" to find related issues">>,
           repository |-> repo,
           helpfulTips |-> NotFoundTips]
     ELSE LET issue_data == GetOr(issue_node[1], "data", EmptyDict)
              issue_labels == GetOr(issue_data, "labels", <<>>)
              related_issues == RelatedFrom(tabs, issue_id, repo, issue_labels, 1, ok)
              \* the scores of one call share their denominator
              sorted == sort_reverse(related_issues,
                                     [k \in DOMAIN related_issues |->
                                        related_issues[k].similarityScore.num])
              unique_issues == Unique(sorted)
          IN [originalIssue |-> [issueId |-> issue_id,
                                 number |-> Get(issue_data, "number"),
                                 title |-> Get(issue_data, "title"),
                                 labels |-> issue_labels],
              relatedIssues |-> Slice(unique_issues, 10),
              repository |-> repo,
              totalFound |-> Len(unique_issues)]

\* The reads find_related_issues makes of the two tables, in call order.
RECURSIVE ReadsFrom(_, _, _, _, _, _)
ReadsFrom(tabs, issue_id, repo, issue_labels, i, ok) ==
  IF i > Len(issue_labels) THEN <<>>
  ELSE LET looked == Candidates(tabs, issue_id, repo, issue_labels[i], ok)
       IN << [call |-> "get_incoming_edges", id |-> LabelId(repo, issue_labels[i])] >>
          \o [k \in DOMAIN looked |-> [call |-> "get_node", id |-> looked[k].fromId]]
          \o ReadsFrom(tabs, issue_id, repo, issue_labels, i + 1, ok)
related_reads(tabs, issue_id, repo, ok) ==
  LET issue_node == get_node(tabs.nodes, issue_id, ok)
  IN << [call |-> "get_node", id |-> issue_id] >>
     \o (IF issue_node = None THEN <<>>
         ELSE ReadsFrom(tabs, issue_id, repo,
                        GetOr(GetOr(issue_node[1], "data", EmptyDict), "labels", <<>>), 1, ok))

\* lines 482-522: the result of the find_relevant_issues action
find_relevant_issues(tabs, repo, topic, world, ok) ==
  LET relevant_issues == check_github_issues(world, IF topic # "" THEN "query" ELSE "")
      top == get_top_contributors(tabs, repo, 3, ok).contributors
      helpers == [i \in DOMAIN Slice(top, 3) |->
                    [login |-> top[i].login, url |-> top[i].url,
                     contributions |-> top[i].contributions]]
  IN [repository |-> repo,
      topic |-> IF topic # "" THEN topic ELSE "general",
      issuesFound |-> relevant_issues.found,
      issueCount |-> relevant_issues.count,
      issues |-> relevant_issues.issues,
      helpers |-> helpers,
      message |-> IF relevant_issues.found
                  THEN <<"Found ", ToString(relevant_issues.count), " relevant issues">>
                  ELSE <<"No specific issues found">>]

\* json.dumps raises on the Decimal that boto3 gives for a stored number:
\* the numbers a find_related_issues result passes on unconverted
Unserializable(result) ==
  /\ "originalIssue" \in DOMAIN result
  /\ \/ result.originalIssue.number \in Int
     \/ \E k \in DOMAIN result.relatedIssues : result.relatedIssues[k].number \in Int

Response(code, body) == [statusCode |-> code, body |-> body]
\* A plausible slip: a result that carries an error goes out as a failure.
DeliverStrict(result) ==
  IF Unserializable(result) \/ "error" \in DOMAIN result
  THEN Response(500, [error |-> "Internal server error"])
  ELSE Response(200, result)

\* lines 573-596
Deliver(result) ==
  IF Unserializable(result) THEN Response(500, [error |-> "Internal server error"])
  ELSE Response(200, result)

\* A plausible slip: only the repository is asked for before the query runs.
dispatch_repo_only(body) ==
  LET action == Get(body, "action")
      repo == GetOr(GetOr(body, "params", EmptyDict), "repo", <<>>)
  IN IF action \notin {"get_top_contributors", "find_reviewers", "find_relevant_issues",
                       "find_related_issues"}
     THEN [reject |-> "Invalid action"]
     ELSE IF repo = <<>> THEN [reject |-> "repo parameter required"]
     ELSE [query |-> action]

\* lines 433-571: the query the handler goes on to for the request, or the
\* error it answers with before any query
dispatch(body) ==
  LET action == Get(body, "action")
      params == GetOr(body, "params", EmptyDict)
      repo == GetOr(params, "repo", <<>>)
  IN IF action = "get_top_contributors"
     THEN IF repo = <<>> THEN [reject |-> "repo parameter required"]
          ELSE [query |-> action]
     ELSE IF action = "find_reviewers"
     THEN IF GetOr(params, "labels", <<>>) = <<>> \/ repo = <<>>
          THEN [reject |-> "labels and repo parameters required"]
          ELSE [query |-> action]
     ELSE IF action = "find_relevant_issues"
     THEN IF repo = <<>> THEN [reject |-> "repo parameter required"]
          ELSE [query |-> action]
     ELSE IF action = "find_related_issues"
     THEN IF GetOr(params, "issueId", <<>>) = <<>> \/ repo = <<>>
          THEN [reject |-> "issueId and repo parameters required"]
          ELSE [query |-> action]
     ELSE [reject |-> "Invalid action"]

\* the query functions the handler calls for the request: they make all of
\* its reads of the tables and all of its requests to GitHub
queried(body) == IF "query" \in DOMAIN dispatch(body) THEN <<dispatch(body).query>> ELSE <<>>

\* body is the parsed request: action and params
lambda_handler(tabs, body, world, ok) ==
  LET params == GetOr(body, "params", EmptyDict)
      repo == GetOr(params, "repo", <<>>)
      todo == dispatch(body)
  IN IF "reject" \in DOMAIN todo THEN Response(400, [error |-> todo.reject])
     ELSE IF todo.query = "get_top_contributors"
     THEN Deliver(get_top_contributors(tabs, repo, GetOr(params, "limit", 10), ok))
     ELSE IF todo.query = "find_reviewers"
     THEN Deliver(find_reviewers(tabs, GetOr(params, "labels", <<>>), repo, world, ok))
     ELSE IF todo.query = "find_relevant_issues"
     THEN Deliver(find_relevant_issues(tabs, repo, GetOr(params, "topic", ""), world, ok))
     ELSE Deliver(find_related_issues(tabs, GetOr(params, "issueId", <<>>), repo, ok))

\* Graph: a store as an ingestion of the repository leaves it (one of its
\* store calls may have failed), and queries made against it.
MaxLimit == 4
GraphRepos == {TheRepo, RepoName("x", "y")}
GraphContributors ==
  { <<>>,
    << [login |-> "alice", type |-> "User", contributions |-> 5] >>,
    << [login |-> "alice", type |-> "User", contributions |-> 5],
       [login |-> "bob", type |-> "User", contributions |-> 20],
       [login |-> "carol", type |-> "User", contributions |-> 20],
       [login |-> "dave", type |-> "User", contributions |-> 1] >> }
GraphLabel(name) == [name |-> <<name>>, color |-> "red"]
GraphIssues ==
  { <<>>,
    << [number |-> 20, user |-> "bob", pull_request |-> FALSE,
        labels |-> <<GraphLabel("bug"), GraphLabel("docs"), GraphLabel("ui")>>],
       [number |-> 21, user |-> "erin", pull_request |-> FALSE,
        labels |-> <<GraphLabel("bug"), GraphLabel("docs")>>],
       [number |-> 22, user |-> "bob", pull_request |-> FALSE,
        labels |-> <<GraphLabel("docs")>>],
       [number |-> 23, user |-> "erin", pull_request |-> FALSE, labels |-> <<>>] >> }
\* a repository with more issues under one label than a traversal looks at:
\* issues 30 and 31 carry api and perf, 32..41 carry api, 42..45 carry perf
ManyIssues ==
  [k \in 1 .. 16 |->
     [number |-> 29 + k, user |-> "erin", pull_request |-> FALSE,
      labels |-> IF k <= 2 THEN <<GraphLabel("api"), GraphLabel("perf")>>
                 ELSE IF k <= 12 THEN <<GraphLabel("api")>>
                 ELSE <<GraphLabel("perf")>>]]
GraphWrites(u) == RepoWrites \o ContributorWrites(u[1]) \o IssueWrites(u[2])
\* the tables after the store calls ws on empty tables, call number bad
\* failed: each key holds the item of the last call that wrote it
Stored(ws, bad, ts) ==
  LET made(op) == {i \in DOMAIN ws : ws[i].op = op /\ i # bad}
      EdgeKeyOf(i) == EdgeKey(ws[i].from, ws[i].to, ws[i].type)
      finalNode(id) == CHOOSE i \in made("node") :
                        ws[i].id = id /\ \A j \in made("node") : ws[j].id = id => j <= i
      finalEdge(key) == CHOOSE i \in made("edge") :
                         EdgeKeyOf(i) = key /\ \A j \in made("edge") : EdgeKeyOf(j) = key => j <= i
  IN [nodes |-> [id \in {ws[i].id : i \in made("node")} |->
                   NodeItem(id, ws[finalNode(id)].type, ws[finalNode(id)].data, ts)],
      edges |-> [key \in {EdgeKeyOf(i) : i \in made("edge")} |->
                   EdgeItem(ws[finalEdge(key)].from, ws[finalEdge(key)].to, ws[finalEdge(key)].type,
                            ws[finalEdge(key)].props, ts)]]
GraphStores ==
  UNION { { ApplyWrites([nodes |-> <<>>, edges |-> <<>>], GraphWrites(u), 1, bad, 0) :
              bad \in 0 .. Len(GraphWrites(u)) } :
          u \in GraphContributors \X GraphIssues }
  \cup { Stored(GraphWrites(<< <<>>, ManyIssues >>), bad, 0) :
            bad \in 0 .. Len(GraphWrites(<< <<>>, ManyIssues >>)) }

Idle == [op |-> "none"]

GraphInit ==
  /\ CrawlIdle
  /\ \E t \in GraphStores : nodes = t.nodes /\ edges = t.edges
  /\ now = 1 /\ calls = 0
  /\ lastNode = <<>> /\ lastEdge = <<>> /\ lastCall = Idle


\* the parameters the queries are asked with
GraphIssueIds == {IssueId(TheRepo, n) : n \in {20, 21, 23, 24, 30}}
GraphLabelLists ==
  { <<>>, << <<"bug">> >>, << <<"bug">>, <<"docs">> >>, << <<"good first issue">> >>,
    << <<"Good First Issue">>, <<"bug">> >> }
Request(action, params) == [action |-> action, params |-> params]
GraphRequests ==
  { Request("get_top_contributors", [repo |-> TheRepo]),
    Request("get_top_contributors", [repo |-> TheRepo, limit |-> 2]),
    Request("get_top_contributors", EmptyDict),
    Request("find_relevant_issues", [repo |-> TheRepo]),
    Request("find_relevant_issues", [repo |-> TheRepo, topic |-> "tests"]),
    Request("find_relevant_issues", EmptyDict),
    Request("list_labels", [repo |-> TheRepo]) }
  \cup { Request("find_reviewers", [repo |-> TheRepo, labels |-> ls]) : ls \in GraphLabelLists }
  \cup { Request("find_reviewers", [labels |-> << <<"bug">> >>]),
         Request("find_reviewers", [repo |-> TheRepo]),
         Request("find_related_issues", [issueId |-> IssueId(TheRepo, 20)]) }
  \cup { Request("find_related_issues", [repo |-> TheRepo, issueId |-> id]) : id \in GraphIssueIds }
  \cup { Request("find_related_issues", [repo |-> TheRepo]) }

QueryUnchanged == UNCHANGED <<nodes, edges, now, lastNode, lastEdge, crawlVars>>

\* get_top_contributors, called on its own
QueryTopContributors ==
  /\ lastCall = Idle /\ calls < MaxCalls
  /\ calls' = calls
  /\ \E repo \in GraphRepos, limit \in 0 .. MaxLimit, ok \in BOOLEAN :
       lastCall' = [op |-> "get_top_contributors", repo |-> repo, limit |-> limit, ok |-> ok,
                    result |-> get_top_contributors(Tabs, repo, limit, ok)]
  /\ QueryUnchanged

\* find_reviewers, called on its own; world is what GitHub answers meanwhile
QueryReviewers ==
  /\ lastCall = Idle /\ calls < MaxCalls
  /\ calls' = calls
  /\ \E labels \in GraphLabelLists, repo \in GraphRepos, world \in Worlds, ok \in BOOLEAN :
       lastCall' = [op |-> "find_reviewers", labels |-> labels, repo |-> repo,
                    world |-> world, ok |-> ok,
                    result |-> find_reviewers(Tabs, labels, repo, world, ok)]
  /\ QueryUnchanged

\* find_related_issues, called on its own
QueryRelated ==
  /\ lastCall = Idle /\ calls < MaxCalls
  /\ calls' = calls
  /\ \E issue_id \in GraphIssueIds, repo \in GraphRepos, ok \in BOOLEAN :
       lastCall' = [op |-> "find_related_issues", issue_id |-> issue_id, repo |-> repo,
                    ok |-> ok,
                    reads |-> related_reads(Tabs, issue_id, repo, ok),
                    result |-> find_related_issues(Tabs, issue_id, repo, ok)]
  /\ QueryUnchanged

\* one invocation of the Lambda function
Invoke ==
  /\ lastCall = Idle /\ calls < MaxCalls
  /\ calls' = calls
  /\ \E body \in GraphRequests, world \in Worlds, ok \in BOOLEAN :
       lastCall' = [op |-> "lambda_handler", body |-> body, world |-> world, ok |-> ok,
                    queried |-> queried(body),
                    response |-> lambda_handler(Tabs, body, world, ok)]
  /\ QueryUnchanged

\* the caller has its answer; nothing of the call stays behind
Return ==
  /\ lastCall # Idle
  /\ lastCall' = Idle /\ calls' = calls + 1
  /\ QueryUnchanged

GraphNext == QueryTopContributors \/ QueryReviewers \/ QueryRelated \/ Invoke \/ Return
SpecGraph == GraphInit /\ [][GraphNext]_vars

(***************************************************************************)
(* Claims about the queries.                                               *)
(***************************************************************************)
\* the CONTRIBUTES_TO edges into the repo node as the query fetches them
Fetched(repo) == get_incoming_edges(edges, RepoId(repo), "CONTRIBUTES_TO", TRUE)
\* those of them whose user node is stored
Joined(repo) == SelectSeq(Fetched(repo), LAMBDA e : e.fromId \in DOMAIN nodes)
Contribution(e) == GetOr(e.properties, "contributions", 0)
\* the place of entry i in the ordering by contributions, largest first, the
\* entries of equal contributions in the order of seq
Place(seq, i) ==
  1 + Cardinality({j \in DOMAIN seq :
                     \/ Contribution(seq[j]) > Contribution(seq[i])
                     \/ Contribution(seq[j]) = Contribution(seq[i]) /\ j < i})
Least(a, b) == IF a < b THEN a ELSE b

\* C13: get_top_contributors(repo, limit), for a repo node that CONTRIBUTES_TO
\* edges come into, returns the join of all these edges with their user nodes,
\* by non-increasing contributions, equal contributions in fetch order, cut to
\* the first limit entries; total counts the whole join.
TopContributorsOrdered ==
  (lastCall.op = "get_top_contributors" /\ lastCall.ok /\ Fetched(lastCall.repo) # <<>>)
    => LET joined == Joined(lastCall.repo)
           r == lastCall.result.contributors
       IN /\ lastCall.result.total = Len(joined)
          /\ Len(r) = Least(lastCall.limit, Len(joined))
          /\ \A i \in DOMAIN joined :
               Place(joined, i) <= lastCall.limit
                 => /\ r[Place(joined, i)].userId = joined[i].fromId
                    /\ r[Place(joined, i)].contributions = Contribution(joined[i])
                    /\ r[Place(joined, i)].login = nodes[joined[i].fromId].data.login

\* C13 witness: the contributions 5, 20, 20, 1 have come back as 20, 20, 5, 1,
\* the two 20s in the order they were fetched in.
TopContributorsOrderedWitness ==
  /\ lastCall.op = "get_top_contributors" /\ lastCall.ok
  /\ Len(Joined(lastCall.repo)) = 4
  /\ [i \in 1 .. 4 |-> Contribution(Joined(lastCall.repo)[i])] = <<5, 20, 20, 1>>
  /\ [i \in DOMAIN lastCall.result.contributors |-> lastCall.result.contributors[i].contributions]
       = <<20, 20, 5, 1>>
  /\ lastCall.result.contributors[1].userId = Joined(lastCall.repo)[2].fromId
  /\ lastCall.result.contributors[2].userId = Joined(lastCall.repo)[3].fromId

\* the store of an ingested repository that has no contributor and no issue
IngestedEmpty == ApplyWrites([nodes |-> <<>>, edges |-> <<>>], RepoWrites, 1, 0, 0)

\* C14: when no CONTRIBUTES_TO edge comes into the repo node of a repository
\* that was never ingested, the answer of get_top_contributors tells so: it
\* differs from the answer for the same repository ingested with no
\* contributor.
NoDataYetTold ==
  (/\ lastCall.op = "get_top_contributors" /\ lastCall.ok
   /\ lastCall.repo = TheRepo /\ RepoId(TheRepo) \notin DOMAIN nodes
   /\ Fetched(TheRepo) = <<>>)
    => lastCall.result # get_top_contributors(IngestedEmpty, TheRepo, lastCall.limit, TRUE)

\* user_id has a stored CONTRIBUTES_TO edge into the repo node and a stored node
FromStore(repo, user_id) ==
  /\ \E k \in DOMAIN Fetched(repo) : Fetched(repo)[k].fromId = user_id
  /\ user_id \in DOMAIN nodes

\* C15: every contributor get_top_contributors returns, and every reviewer
\* find_reviewers suggests, is the user of a stored CONTRIBUTES_TO edge into
\* the repo node joined with a stored user node.
AnswersFromStore ==
  /\ lastCall.op = "get_top_contributors"
       => \A k \in DOMAIN lastCall.result.contributors :
            FromStore(lastCall.repo, lastCall.result.contributors[k].userId)
  /\ (lastCall.op = "find_reviewers" /\ "suggestedReviewers" \in DOMAIN lastCall.result)
       => \A k \in DOMAIN lastCall.result.suggestedReviewers :
            \E u \in DOMAIN nodes :
              /\ FromStore(lastCall.repo, u)
              /\ Get(nodes[u].data, "login") = lastCall.result.suggestedReviewers[k].login

\* C16: the result of a find_reviewers call is a function of the tables and
\* the parameters alone: it is the result the same call has on the same
\* tables whatever GitHub answers.
ReviewersPure ==
  lastCall.op = "find_reviewers"
    => \A w \in Worlds :
         lastCall.result = find_reviewers(Tabs, lastCall.labels, lastCall.repo, w, lastCall.ok)

HasContributor(repo) == \E u \in DOMAIN nodes : FromStore(repo, u)
\* the people a find_reviewers result recommends: its suggested reviewers,
\* or the mentors of the result for 'good first issue'
Suggested(result) ==
  IF "suggestedReviewers" \in DOMAIN result THEN result.suggestedReviewers
  ELSE IF "mentors" \in DOMAIN result THEN result.mentors
  ELSE <<>>

\* C17: for every list of labels, the empty list too, and a repository with
\* at least one ingested contributor, find_reviewers recommends somebody, and
\* so does the find_reviewers action of the handler.
ReviewersNeverEmpty ==
  /\ (lastCall.op = "find_reviewers" /\ HasContributor(lastCall.repo))
       => Suggested(lastCall.result) # <<>>
  /\ (/\ lastCall.op = "lambda_handler"
      /\ lastCall.body.action = "find_reviewers"
      /\ {"repo", "labels"} \subseteq DOMAIN lastCall.body.params
      /\ HasContributor(lastCall.body.params.repo))
       => /\ lastCall.response.statusCode = 200
          /\ Suggested(lastCall.response.body) # <<>>

\* the stored issues that carry the label, and the stored authors of an issue
IssuesWith(repo, label) ==
  {e.fromId : e \in {x \in Items(edges) : x.edgeType = "HAS_LABEL" /\ x.toId = LabelId(repo, label)}}
AuthorsOf(issue_id) ==
  {e.fromId : e \in {x \in Items(edges) : x.edgeType = "AUTHORED" /\ x.toId = issue_id}}
\* the users that are expert in the label: stored users that authored an issue carrying it
ExpertsIn(repo, label) ==
  {u \in UNION {AuthorsOf(i) : i \in IssuesWith(repo, label)} :
     u \in DOMAIN nodes /\ nodes[u].nodeType = "user"}
\* the number of requested labels the user is expert in
Cumulative(repo, labels, u) == Cardinality({l \in Range(labels) : u \in ExpertsIn(repo, l)})

\* C18: when some user is expert in a requested label of a repository with
\* ingested contributors, the suggested reviewers of find_reviewers are the experts of the requested labels (the first five),
\* ordered by the number of requested labels they are expert in, largest
\* first, and the result holds the experts of each label.
ReviewersRanked ==
  (/\ lastCall.op = "find_reviewers" /\ lastCall.ok
   /\ HasContributor(lastCall.repo)
   /\ \A i \in DOMAIN lastCall.labels : ~IsGoodFirst(lastCall.labels[i])
   /\ \E l \in Range(lastCall.labels) : ExpertsIn(lastCall.repo, l) # {})
    => LET r == lastCall.result.suggestedReviewers
           count(k) == Cumulative(lastCall.repo, lastCall.labels, UserId(r[k].login))
           experts == UNION {ExpertsIn(lastCall.repo, l) : l \in Range(lastCall.labels)}
       IN /\ DOMAIN lastCall.result.labelExperts = Range(lastCall.labels)
          /\ \A k \in DOMAIN r : count(k) > 0
          /\ \A j, k \in DOMAIN r : j < k => count(j) >= count(k)
          /\ Len(r) = Least(Cardinality(experts), 5)

\* the structured not-found result, with its guidance
IsNotFound(result) ==
  /\ DOMAIN result = {"error", "suggestion", "repository", "helpfulTips"}
  /\ result.error # <<>> /\ result.suggestion # <<>>
  /\ result.helpfulTips # <<>>
  /\ \A k \in DOMAIN result.helpfulTips : result.helpfulTips[k] # ""

\* C19: for an issue id without a node in the store, find_related_issues
\* returns the structured not-found result with its guidance, having read the
\* issue's node and nothing else (no label is traversed), also when the read
\* fails; the handler delivers this result with status 200.
NotFoundStructured ==
  /\ (lastCall.op = "find_related_issues" /\ lastCall.issue_id \notin DOMAIN nodes)
       => /\ IsNotFound(lastCall.result)
          /\ lastCall.reads = << [call |-> "get_node", id |-> lastCall.issue_id] >>
  /\ (/\ lastCall.op = "lambda_handler"
      /\ lastCall.body.action = "find_related_issues"
      /\ {"repo", "issueId"} \subseteq DOMAIN lastCall.body.params
      /\ lastCall.body.params.issueId \notin DOMAIN nodes)
       => /\ lastCall.response.statusCode = 200
          /\ IsNotFound(lastCall.response.body)

\* C19 witness: the handler was asked for the issues related to issue 24,
\* which the store with its labelled issues does not hold, and has answered.
NotFoundStructuredWitness ==
  /\ lastCall.op = "lambda_handler"
  /\ lastCall.body.action = "find_related_issues"
  /\ "issueId" \in DOMAIN lastCall.body.params
  /\ lastCall.body.params.issueId = IssueId(TheRepo, 24)
  /\ IssueId(TheRepo, 24) \notin DOMAIN nodes
  /\ IssueId(TheRepo, 20) \in DOMAIN nodes
  /\ lastCall.response.statusCode = 200
  /\ "helpfulTips" \in DOMAIN lastCall.response.body

\* the labels the store holds for an issue
StoredLabels(issue_id) == Range(GetOr(nodes[issue_id].data, "labels", <<>>))

\* C20: for an existing issue with label set L, every candidate with label
\* set C that find_related_issues returns has the score |L \cap C| over
\* max(|L|, 1); the divisor is never 0, and an issue without labels gets no
\* candidate with a score other than 0.
SimilarityExact ==
  (/\ lastCall.op = "find_related_issues" /\ lastCall.ok
   /\ lastCall.issue_id \in DOMAIN nodes)
    => LET L == StoredLabels(lastCall.issue_id)
           r == lastCall.result.relatedIssues
       IN /\ \A k \in DOMAIN r :
               /\ r[k].issueId \in DOMAIN nodes
               /\ r[k].similarityScore.num = Cardinality(L \cap StoredLabels(r[k].issueId))
               /\ r[k].similarityScore.den = (IF Cardinality(L) > 1 THEN Cardinality(L) ELSE 1)
               /\ r[k].similarityScore.den # 0
          /\ L = {} => \A k \in DOMAIN r : r[k].similarityScore.num = 0

\* C20 witness: issue 20 carries three labels, and issue 21, which shares
\* exactly two of them, has come back with the score 2/3.
SimilarityExactWitness ==
  /\ lastCall.op = "find_related_issues" /\ lastCall.ok
  /\ lastCall.issue_id = IssueId(TheRepo, 20)
  /\ IssueId(TheRepo, 20) \in DOMAIN nodes
  /\ Cardinality(StoredLabels(IssueId(TheRepo, 20))) = 3
  /\ \E k \in DOMAIN lastCall.result.relatedIssues :
       /\ lastCall.result.relatedIssues[k].issueId = IssueId(TheRepo, 21)
       /\ Cardinality(StoredLabels(IssueId(TheRepo, 21))) = 2
       /\ lastCall.result.relatedIssues[k].similarityScore = [num |-> 2, den |-> 3]

\* the stored issues a label traversal of find_related_issues surfaces: the
\* sources of the first ten HAS_LABEL edges into a label of the issue, the
\* issue itself left out, whose node is stored
Surfaced(issue_id, repo) ==
  { i \in UNION { {e.fromId : e \in Range(Slice(get_incoming_edges(edges, LabelId(repo, l),
                                                                    "HAS_LABEL", TRUE), 10))} :
                  l \in StoredLabels(issue_id) } :
      i # issue_id /\ i \in DOMAIN nodes }

\* C21: relatedIssues holds each issue id at most once, never the original
\* issue, only issues that a label traversal surfaced, by non-increasing
\* score, at most 10 of them (all of them when no more than 10 were
\* surfaced), and totalFound is the number of distinct issues surfaced.
RelatedDistinct ==
  (lastCall.op = "find_related_issues" /\ "relatedIssues" \in DOMAIN lastCall.result)
    => LET r == lastCall.result.relatedIssues
           found == Surfaced(lastCall.issue_id, lastCall.repo)
       IN /\ \A j, k \in DOMAIN r : j # k => r[j].issueId # r[k].issueId
          /\ \A k \in DOMAIN r : r[k].issueId # lastCall.issue_id /\ r[k].issueId \in found
          /\ \A j, k \in DOMAIN r :
               j < k => r[j].similarityScore.num * r[k].similarityScore.den
                          >= r[k].similarityScore.num * r[j].similarityScore.den
          /\ Len(r) <= 10
          /\ Len(r) = Least(Cardinality(found), 10)
          /\ lastCall.result.totalFound = Cardinality(found)

\* C21 witness: issue 30 carries two labels; issue 31 carries both and was
\* surfaced by both traversals, more than ten issues were surfaced in all,
\* ten came back, issue 31 first and once.
RelatedDistinctWitness ==
  /\ lastCall.op = "find_related_issues" /\ lastCall.issue_id = IssueId(TheRepo, 30)
  /\ "relatedIssues" \in DOMAIN lastCall.result
  /\ Cardinality(StoredLabels(IssueId(TheRepo, 30))) = 2
  /\ IssueId(TheRepo, 31) \in DOMAIN nodes
  /\ StoredLabels(IssueId(TheRepo, 31)) = StoredLabels(IssueId(TheRepo, 30))
  /\ lastCall.result.totalFound > 10
  /\ Len(lastCall.result.relatedIssues) = 10
  /\ lastCall.result.relatedIssues[1].issueId = IssueId(TheRepo, 31)
  /\ lastCall.result.relatedIssues[1].similarityScore = [num |-> 2, den |-> 2]
  /\ lastCall.result.relatedIssues[2].similarityScore = [num |-> 1, den |-> 2]

(***************************************************************************)
(* Claims about the modes of the ingestion.                                *)
(***************************************************************************)
\* C30: in mode contributors an ingestion writes repo and user nodes and
\* CONTRIBUTES_TO edges, and nothing else: no issue, label, pull request or
\* file is written.
ContributorsOnly ==
  (mode = "contributors" /\ hist.started)
    => /\ \A n \in DOMAIN nodes : nodes[n].nodeType \in {"repo", "user"}
       /\ \A e \in DOMAIN edges : edges[e].edgeType = "CONTRIBUTES_TO"

(***************************************************************************)
(* Claims about requests whose attempts are used up.                       *)
(***************************************************************************)
\* the requests of an ingestion after the repository's own
ItemRequests == {"fetch", "comments", "reviews", "files", "contributors", "issues"}

\* C24: when an ingestion is over and one of its requests (PR list, comments,
\* reviews or files of a PR, contributors, issues) had used up its attempts,
\* the ingestion has returned its statistics, not raised, and the error list
\* of the statistics holds an entry.
ExhaustedSkipsOne ==
  (hist.started /\ pc = "done" /\ hist.exhausted \cap ItemRequests # {})
    => /\ hist.outcome = "returned"
       /\ Len(stats.errors) > 0

(***************************************************************************)
(* github_request, one HTTP request per step.  Time is counted in ticks of *)
(* half a second: time.time() is clock / 2, int(time.time()) is            *)
(* clock \div 2.  A response is a status code (403 is the rate-limit 403,  *)
(* 500 any other failure), for a 403 the X-RateLimit-Reset header (0 when  *)
(* it is missing), for a 200 of a paginated call whether the Link header   *)
(* names a next page.                                                      *)
(***************************************************************************)
\* requests sent by one call, a cap on the paginated call that is rate-limited on and on
MaxSent == 5
\* pages of the list a paginated call fetches
MaxPages == 2

Ticks(seconds) == 2 * seconds

\* A plausible slip: the wait is the time to the reset, without the floor of 60 seconds.
rate_limit_wait_reset(reset_time, clock) ==
  IF reset_time - (clock \div 2) > 0 THEN reset_time - (clock \div 2) ELSE 0
\* lines 119-120: max(reset_time - int(time.time()), 60)
rate_limit_wait(reset_time, clock) ==
  IF reset_time - (clock \div 2) > 60 THEN reset_time - (clock \div 2) ELSE 60

\* A plausible slip: the same pause after every failed attempt.
backoff_flat(attempt) == 1
\* line 130: 2 ** attempt
backoff(attempt) == 2 ^ attempt

\* A plausible slip: a 404 is taken for a failure like any other.
classify_retry(code) ==
  IF code = 200 THEN "ok" ELSE IF code = 403 THEN "rate_limit" ELSE "error"
\* lines 116-126: the branch a response takes
classify(code) ==
  IF code = 200 THEN "ok"
  ELSE IF code = 403 THEN "rate_limit"
  ELSE IF code = 404 THEN "not_found"
  ELSE "error"

Codes == {200, 403, 404, 500}
\* X-RateLimit-Reset in seconds of the clock; 0 also stands for the missing header
ResetTimes == {0, 30, 90}

NewRequest(paginate, clock) ==
  [op |-> "github_request", paginate |-> paginate, attempt |-> 0, page_count |-> 1,
   all_results |-> <<>>, clock |-> clock, log |-> <<>>, status |-> "running",
   result |-> <<>>, listing |-> "none"]

Sent(c, code, reset_time, slept) ==
  Append(c.log, [at |-> c.clock, code |-> code, reset |-> reset_time, attempt |-> c.attempt,
                 page_count |-> c.page_count, slept |-> slept])
Returned(c, log, result) == [c EXCEPT !.log = log, !.status = "returned", !.result = result]

\* lines 111-133: the call without pagination after one more response
after_single(c, code, reset_time) ==
  LET kind == classify(code)
      wait == Ticks(rate_limit_wait(reset_time, c.clock))
      pause == Ticks(backoff(c.attempt))
  IN IF kind = "ok" THEN Returned(c, Sent(c, code, reset_time, 0), "json")
     ELSE IF kind = "rate_limit"
     THEN LET slept == [c EXCEPT !.log = Sent(c, code, reset_time, wait),
                                 !.clock = @ + wait, !.attempt = @ + 1]
          IN IF c.attempt + 1 < max_retries THEN slept
             ELSE [slept EXCEPT !.status = "returned", !.result = "empty"]
     ELSE IF kind = "not_found" THEN Returned(c, Sent(c, code, reset_time, 0), "empty")
     ELSE IF c.attempt < max_retries - 1
     THEN [c EXCEPT !.log = Sent(c, code, reset_time, pause),
                    !.clock = @ + pause, !.attempt = @ + 1]
     ELSE [c EXCEPT !.log = Sent(c, code, reset_time, 0), !.status = "raised"]

\* line 146: params if page_count == 1 else None.  The url of the call is
\* sent with the caller's params (state, per_page, sort, direction) in the
\* first pass of the while loop only; sent bare it is answered with the
\* default listing of the endpoint.  The url of a later page comes from the
\* Link header and carries the query of the listing it belongs to.
listing_read(c) ==
  IF c.all_results # <<>> THEN c.listing
  ELSE IF c.page_count = 1 THEN "asked" ELSE "default"

\* lines 135-181: the paginated call after one more response
after_page(c, code, reset_time, more) ==
  LET kind == classify(code)
      wait == Ticks(rate_limit_wait(reset_time, c.clock))
      pause == Ticks(backoff(c.attempt))
      this_page == Len(c.all_results) + 1
  IN IF kind = "ok"
     THEN IF more /\ this_page < MaxPages
          THEN [c EXCEPT !.log = Sent(c, code, reset_time, 1), !.clock = @ + 1,
                         !.all_results = Append(@, this_page),
                         !.listing = listing_read(c),
                         !.attempt = 0, !.page_count = @ + 1]
          ELSE Returned([c EXCEPT !.all_results = Append(@, this_page),
                                  !.listing = listing_read(c)],
                        Sent(c, code, reset_time, 0), Append(c.all_results, this_page))
     ELSE IF kind = "rate_limit"
     THEN LET slept == [c EXCEPT !.log = Sent(c, code, reset_time, wait),
                                 !.clock = @ + wait, !.attempt = @ + 1]
          IN IF c.attempt + 1 < max_retries THEN slept
             ELSE [slept EXCEPT !.attempt = 0, !.page_count = @ + 1]
     ELSE IF kind = "not_found" THEN Returned(c, Sent(c, code, reset_time, 0), c.all_results)
     ELSE IF c.attempt < max_retries - 1
     THEN [c EXCEPT !.log = Sent(c, code, reset_time, pause),
                    !.clock = @ + pause, !.attempt = @ + 1]
     ELSE Returned(c, Sent(c, code, reset_time, 0), c.all_results)

RequestUnchanged == UNCHANGED <<nodes, edges, now, calls, lastNode, lastEdge, crawlVars>>

RequestInit ==
  /\ nodes = <<>> /\ edges = <<>> /\ now = 0 /\ calls = 0
  /\ lastNode = <<>> /\ lastEdge = <<>>
  /\ CrawlIdle
  /\ \E paginate \in BOOLEAN, clock \in {0, 1} : lastCall = NewRequest(paginate, clock)

\* requests.get and what the loop does with the response
SendRequest ==
  /\ lastCall.status = "running"
  /\ Len(lastCall.log) < MaxSent
  /\ \E code \in Codes :
     \E reset_time \in (IF code = 403 THEN ResetTimes ELSE {0}) :
     \E more \in (IF code = 200 /\ lastCall.paginate THEN BOOLEAN ELSE {FALSE}) :
       lastCall' = IF lastCall.paginate THEN after_page(lastCall, code, reset_time, more)
                   ELSE after_single(lastCall, code, reset_time)
  /\ RequestUnchanged

RequestNext == SendRequest
SpecRequest == RequestInit /\ [][RequestNext]_vars

\* the request machine is in use
Requesting == lastCall.op = "github_request"
\* the seconds T from the rejection to the reset, in ticks (may be negative)
AheadTicks(entry) == Ticks(entry.reset) - entry.at
Most(a, b) == IF a > b THEN a ELSE b

\* C22: after a rate-limit 403 whose reset time lies T seconds ahead,
\* github_request sleeps at least max(T, 60) seconds, and the next request of
\* the call is sent no earlier than that after the rejection.
RateLimitWait ==
  Requesting
    => \A k \in DOMAIN lastCall.log :
         lastCall.log[k].code = 403
           => /\ lastCall.log[k].slept >= Most(AheadTicks(lastCall.log[k]), Ticks(60))
              /\ k < Len(lastCall.log)
                   => lastCall.log[k + 1].at - lastCall.log[k].at
                        >= Most(AheadTicks(lastCall.log[k]), Ticks(60))
              /\ lastCall.clock - lastCall.log[k].at
                   >= Most(AheadTicks(lastCall.log[k]), Ticks(60))

\* C22 witness: a request was rejected half a second past the full second,
\* with a reset 89.5 seconds ahead, the call has slept 90 seconds and sent
\* its next request.
RateLimitWaitWitness ==
  /\ Requesting /\ Len(lastCall.log) >= 2
  /\ lastCall.log[1].code = 403 /\ lastCall.log[1].at = 1 /\ lastCall.log[1].reset = 90
  /\ lastCall.log[1].slept = Ticks(90)
  /\ lastCall.log[2].at = 1 + Ticks(90)

\* C23: a call without pagination sends at most 3 requests; after a failed
\* attempt that is not a rate-limit rejection and not the third it waits
\* 2^attempt seconds (1, then 2) and sends the next one; after the third
\* failed attempt it has given up: it has raised, or returned {} when the
\* third was a rate-limit rejection.
ThreeAttempts ==
  (Requesting /\ ~lastCall.paginate)
    => /\ Len(lastCall.log) <= 3
       /\ \A k \in DOMAIN lastCall.log :
            /\ lastCall.log[k].attempt = k - 1
            /\ (lastCall.log[k].code = 500 /\ k < 3)
                 => /\ lastCall.log[k].slept = Ticks(2 ^ (k - 1))
                    /\ lastCall.status = "running" \/ k < Len(lastCall.log)
            /\ (lastCall.log[k].code = 500 /\ k = 3) => lastCall.status = "raised"
            /\ (lastCall.log[k].code = 403 /\ k = 3)
                 => lastCall.status = "returned" /\ lastCall.result = "empty"
       /\ lastCall.status = "running" => Len(lastCall.log) < 3

\* C23 witness: three failures in a row: the call has waited 1 second, then
\* 2 seconds, and raised after the third.
ThreeAttemptsWitness ==
  /\ Requesting /\ ~lastCall.paginate
  /\ [k \in DOMAIN lastCall.log |-> lastCall.log[k].code] = <<500, 500, 500>>
  /\ [k \in DOMAIN lastCall.log |-> lastCall.log[k].slept] = <<Ticks(1), Ticks(2), 0>>
  /\ lastCall.status = "raised"

\* the pages collected by the responses before response k
PagesBefore(k) == Cardinality({j \in 1 .. k - 1 : lastCall.log[j].code = 200})

\* C25: a 404 ends the call at once: it is the last request of the call, no
\* sleep follows it, nothing is raised, and the call returns {} or, with
\* pagination, the items of the pages fetched before.
NotFoundReturns ==
  Requesting
    => \A k \in DOMAIN lastCall.log :
         lastCall.log[k].code = 404
           => /\ k = Len(lastCall.log)
              /\ lastCall.status = "returned"
              /\ lastCall.log[k].slept = 0 /\ lastCall.clock = lastCall.log[k].at
              /\ IF lastCall.paginate
                 THEN lastCall.result = [p \in 1 .. PagesBefore(k) |-> p]
                 ELSE lastCall.result = "empty"

\* C25 witness: a paginated call has fetched its first page and got a 404
\* for the second: it has returned the first page.
NotFoundReturnsWitness ==
  /\ Requesting /\ lastCall.paginate
  /\ [k \in DOMAIN lastCall.log |-> lastCall.log[k].code] = <<200, 404>>
  /\ lastCall.status = "returned" /\ lastCall.result = <<1>>

(***************************************************************************)
(* lambda_handler of the ingestion.  The run is a record in lastCall: the  *)
(* event's mode, what the secret store and the environment hold, where the *)
(* handler stands, the repositories selected, the results so far and what  *)
(* the run has done (storage calls, GitHub requests, calls of              *)
(* ingest_repository).  ingest_repository is one step: its outcome is      *)
(* that of the repository's own request and of one request after it, and   *)
(* its writes are the repo node.                                           *)
(***************************************************************************)
BatchSize == 5
MaxRepos == 6

DefaultKey == <<"RooCodeInc", "Roo-Code">>
ConfigKey(n) == <<"o", ToString(n)>>
ConfigKeys(k) == {ConfigKey(n) : n \in 1 .. k}
Config(key, enabled) == [org |-> key[1], repo |-> key[2], enabled |-> enabled]
\* the item put_item writes for the default repository (lines 863-873)
DefaultItem(ts) == [org |-> DefaultKey[1], repo |-> DefaultKey[2], enabled |-> TRUE,
                    ingestStatus |-> "pending", createdAt |-> ts]

\* repos tables: k entries of which those in off are disabled, and the
\* default repository absent, disabled or enabled
ConfigTable(k, off, default) ==
  [key \in ConfigKeys(k) \cup (IF default = "absent" THEN {} ELSE {DefaultKey}) |->
     Config(key, IF key = DefaultKey THEN default = "enabled" ELSE key \notin off)]
ConfigTables ==
  { ConfigTable(k, off, default) :
      k \in 0 .. MaxRepos,
      off \in {{}, {ConfigKey(1)}, ConfigKeys(MaxRepos)},
      default \in {"absent", "disabled", "enabled"} }

\* scan with FilterExpression 'enabled = :enabled': the enabled items, here in
\* the order of their keys
ScanOrder == [n \in 1 .. MaxRepos |-> ConfigKey(n)] \o <<DefaultKey>>
IsEnabled(table, key) ==
  key \in DOMAIN table /\ "enabled" \in DOMAIN table[key] /\ table[key].enabled = TRUE
scan_enabled(table) ==
  LET keys == SelectSeq(ScanOrder, LAMBDA key : IsEnabled(table, key))
  IN [i \in DOMAIN keys |-> table[keys[i]]]

\* what the secret store answers: a token, a secret without one, or an error
Secrets == {"token", "", "raise"}
\* GITHUB_TOKEN of the environment
Envs == {"token", ""}
get_github_token(secret, env) == IF secret = "raise" THEN env ELSE secret

\* A plausible slip: a placeholder stands in for the missing token.
handler_token_placeholder(secret, env) ==
  LET token == get_github_token(secret, env)
  IN IF token # "" THEN token ELSE IF env # "" THEN env ELSE "anonymous"

\* lines 831-834: the token the handler goes on with, "" when there is none
handler_token(secret, env) ==
  LET token == get_github_token(secret, env)
  IN IF token # "" THEN token ELSE env

Events == {EmptyDict, [mode |-> "contributors"], [mode |-> "prs"], [mode |-> "full"],
           [mode |-> "sync"], [mode |-> ""]}

NewBatch(event, secret, env, table) ==
  [op |-> "ingest_handler", at |-> "start", event |-> event, secret |-> secret, env |-> env,
   before |-> table, mode |-> "", token |-> "", lookups |-> 0, storage |-> 0, requests |-> 0,
   selected |-> <<>>, i |-> 1, ingested |-> <<>>, results |-> <<>>,
   response |-> [statusCode |-> 0]]

Finish(b, response) == [b EXCEPT !.at = "returned", !.response = response]

\* lines 819-839: the mode, then the token
handler_start(b) ==
  LET event_mode == GetOr(b.event, "mode", "contributors")
      token == handler_token(b.secret, b.env)
  IN IF event_mode \notin Modes
     THEN Finish(b, Response(400, [error |-> "Invalid mode"]))
     ELSE IF token = ""
     THEN Finish([b EXCEPT !.mode = event_mode, !.lookups = 1],
                 Response(500, [error |-> "GitHub token not configured"]))
     ELSE [b EXCEPT !.mode = event_mode, !.lookups = 1, !.token = token, !.at = "select"]

DefaultConfig == Config(DefaultKey, TRUE)

\* lines 841-881: the repositories of the run; scan_ok and put_ok tell
\* whether the scan and the put_item of the default repository succeed
handler_select(b, table, scan_ok, put_ok) ==
  LET found == IF scan_ok THEN scan_enabled(table) ELSE <<DefaultConfig>>
  IN IF found # <<>>
     THEN [b EXCEPT !.storage = @ + 1, !.selected = found, !.at = "loop"]
     ELSE IF put_ok
     THEN [b EXCEPT !.storage = @ + 2, !.selected = <<DefaultConfig>>, !.at = "loop"]
     ELSE Finish([b EXCEPT !.storage = @ + 2],
                 Response(200, [message |-> "No repositories to ingest and could not add default"]))

\* update_item SET lastIngestAt, ingestStatus (and lastError): it creates the
\* item when the key has none; ok = FALSE is the call that raises, which is
\* printed and swallowed
update_status(table, key, status, ts, ok) ==
  IF ~ok THEN table
  ELSE LET old == IF key \in DOMAIN table THEN table[key]
                  ELSE [org |-> key[1], repo |-> key[2]]
           set == IF status = "error" THEN {"lastIngestAt", "ingestStatus", "lastError"}
                  ELSE {"lastIngestAt", "ingestStatus"}
           new == [f \in DOMAIN old \cup set |->
                     IF f = "lastIngestAt" THEN ts
                     ELSE IF f = "ingestStatus" THEN status
                     ELSE IF f = "lastError" THEN "GitHub API request failed"
                     ELSE old[f]]
       IN put_item(table, key, new)

\* ingest_repository as the handler sees it: "raise" when a request raises,
\* else the statistics with their error list
ingest_outcome(repo_fetch, later_fetch) ==
  IF repo_fetch = "raise" THEN "raise"
  ELSE IF repo_fetch = "empty" THEN "empty"
  ELSE IF later_fetch = "raise" THEN "raise"
  ELSE "ok"

ConfigName(config) == RepoName(config.org, config.repo)

\* A plausible slip: the exception of one repository ends the batch.
after_ingest_abort(b, config, repo_fetch, outcome) ==
  LET entry == [repo |-> ConfigName(config), status |-> "success",
                stats |-> [errors |-> IF outcome = "empty"
                                      THEN <<"Could not fetch repo data">> ELSE <<>>]]
      c == [b EXCEPT !.i = @ + 1, !.storage = @ + 1,
                     !.requests = @ + (IF repo_fetch = "ok" THEN 2 ELSE 1),
                     !.ingested = Append(@, [key |-> <<config.org, config.repo>>,
                                             fetch |-> repo_fetch])]
  IN IF outcome = "raise"
     THEN Finish(c, Response(500, [error |-> "GitHub API request failed"]))
     ELSE [c EXCEPT !.results = Append(@, entry)]

\* lines 886-931: the run after ingest_repository and update_item for
\* repos[i]
after_ingest(b, config, repo_fetch, outcome) ==
  LET entry == IF outcome = "raise"
               THEN [repo |-> ConfigName(config), status |-> "error",
                     error |-> "GitHub API request failed"]
               ELSE [repo |-> ConfigName(config), status |-> "success",
                     stats |-> [errors |-> IF outcome = "empty"
                                           THEN <<"Could not fetch repo data">> ELSE <<>>]]
  IN [b EXCEPT !.i = @ + 1, !.storage = @ + 1,
               !.requests = @ + (IF repo_fetch = "ok" THEN 2 ELSE 1),
               !.ingested = Append(@, [key |-> <<config.org, config.repo>>,
                                       fetch |-> repo_fetch]),
               !.results = Append(@, entry)]

WithStatus(results, status) == SelectSeq(results, LAMBDA r : r.status = status)

\* lines 933-946
handler_return(b) ==
  Finish(b, Response(200, [message |-> "Ingestion complete",
                           results |-> b.results,
                           totalProcessed |-> Len(b.results),
                           successful |-> Len(WithStatus(b.results, "success")),
                           failed |-> Len(WithStatus(b.results, "error"))]))

Handling == lastCall.op = "ingest_handler"
BatchUnchanged == UNCHANGED <<now, calls, lastNode, lastEdge, prCount, noUser, mode, pc,
                              last_processed_pr, all_prs, page, idx, stats, runs, news, hist>>

HandlerStart ==
  /\ Handling /\ lastCall.at = "start"
  /\ lastCall' = handler_start(lastCall)
  /\ UNCHANGED <<nodes, edges, repos, faults, cfaults>>
  /\ BatchUnchanged

SelectRepos ==
  /\ Handling /\ lastCall.at = "select"
  /\ \E scan_ok \in StoreOk(cfaults) :
     \E put_ok \in (IF scan_ok /\ scan_enabled(repos) = <<>>
                    THEN StoreOk(cfaults) ELSE {TRUE}) :
       /\ lastCall' = handler_select(lastCall, repos, scan_ok, put_ok)
       /\ repos' = IF scan_ok /\ scan_enabled(repos) = <<>> /\ put_ok
                   THEN put_item(repos, DefaultKey, DefaultItem(now)) ELSE repos
       /\ cfaults' = IF scan_ok /\ put_ok THEN cfaults ELSE cfaults - 1
  /\ UNCHANGED <<nodes, edges, faults>>
  /\ BatchUnchanged

IngestOne ==
  /\ Handling /\ lastCall.at = "loop"
  /\ lastCall.i <= Len(Slice(lastCall.selected, BatchSize))
  /\ LET config == lastCall.selected[lastCall.i]
         key == <<config.org, config.repo>>
     IN \E r \in Responses(faults) :
        \E later \in (IF github_request(r) = "ok" THEN Responses(faults - Cost(r))
                      ELSE {Healthy}) :
        \E ok \in StoreOk(cfaults) :
          LET outcome == ingest_outcome(github_request(r), github_request(later))
          IN /\ lastCall' = after_ingest(lastCall, config, github_request(r), outcome)
             /\ nodes' = IF github_request(r) = "ok"
                         THEN upsert_node(nodes, RepoId(ConfigName(config)), "repo",
                                          [name |-> config.repo, owner |-> config.org],
                                          now, TRUE)
                         ELSE nodes
             /\ repos' = update_status(repos, key,
                                       IF outcome = "raise" THEN "error" ELSE "success",
                                       now, ok)
             /\ faults' = faults - Cost(r) - Cost(later)
             /\ cfaults' = IF ok THEN cfaults ELSE cfaults - 1
  /\ UNCHANGED edges
  /\ BatchUnchanged

HandlerReturn ==
  /\ Handling /\ lastCall.at = "loop"
  /\ lastCall.i > Len(Slice(lastCall.selected, BatchSize))
  /\ lastCall' = handler_return(lastCall)
  /\ UNCHANGED <<nodes, edges, repos, faults, cfaults>>
  /\ BatchUnchanged

\* the handler, invoked once on any repos table
BatchInit ==
  /\ nodes = <<>> /\ edges = <<>> /\ now = 0 /\ calls = 0
  /\ lastNode = <<>> /\ lastEdge = <<>>
  /\ IdleRun
  /\ prCount = 0 /\ noUser = {} /\ mode = "prs"
  /\ faults = MaxFaults /\ cfaults = MaxFaults
  /\ repos \in ConfigTables
  /\ \E event \in Events, secret \in Secrets, env \in Envs :
       lastCall = NewBatch(event, secret, env, repos)

BatchNext == HandlerStart \/ SelectRepos \/ IngestOne \/ HandlerReturn
SpecBatch == BatchInit /\ [][BatchNext]_vars

(***************************************************************************)
(* Claims about the handler of the ingestion.                              *)
(***************************************************************************)
\* repos[:5] of the run
Batch == Slice(lastCall.selected, BatchSize)
\* the handler has returned the report of a batch
Reported ==
  /\ Handling /\ lastCall.at = "returned"
  /\ "results" \in DOMAIN lastCall.response.body

\* C26: every call of ingest_repository leaves exactly one entry in the
\* results, under the repository's name: an entry whose error list holds the
\* failure when the repository's own request came back empty (404), an entry
\* of status error with the error when it raised; the report of a batch has
\* one entry for each of the repositories selected, in their order, and its
\* successful and failed add up to totalProcessed, the number of them.
OneEntryEach ==
  Handling =>
    /\ Len(lastCall.results) = Len(lastCall.ingested)
    /\ \A k \in DOMAIN lastCall.ingested :
         LET entry == lastCall.results[k]
             call == lastCall.ingested[k]
         IN /\ entry.repo = RepoName(call.key[1], call.key[2])
            /\ call.fetch = "empty" =>
                 entry.status = "success" /\ entry.stats.errors # <<>>
            /\ call.fetch = "raise" =>
                 entry.status = "error" /\ "error" \in DOMAIN entry
    /\ Reported =>
         LET body == lastCall.response.body
         IN /\ body.results = lastCall.results
            /\ Len(body.results) = Len(Batch)
            /\ \A k \in DOMAIN Batch : body.results[k].repo = ConfigName(Batch[k])
            /\ body.totalProcessed = Len(Batch)
            /\ body.successful + body.failed = body.totalProcessed

\* a batch of five out of more enabled repositories, the first of which
\* raised, has been reported with the last one ingested
OneEntryEachWitness ==
  /\ Reported
  /\ Len(lastCall.selected) > BatchSize
  /\ lastCall.ingested[1].fetch = "raise"
  /\ lastCall.response.body.failed = 1
  /\ lastCall.results[BatchSize].status = "success"

\* the secret store and the environment hold no token
NoToken == lastCall.secret # "token" /\ lastCall.env = ""

\* C28: when neither the secret store nor the environment yields a token,
\* the handler selects no repository, makes no GitHub request and no storage
\* call, leaves the repos table, the nodes and the edges as they were, looks
\* the token up once, and for a valid mode returns 500 'GitHub token not
\* configured'.
NoTokenAborts ==
  (Handling /\ NoToken) =>
    /\ lastCall.at \in {"start", "returned"}
    /\ lastCall.selected = <<>> /\ lastCall.ingested = <<>>
    /\ lastCall.requests = 0 /\ lastCall.storage = 0 /\ lastCall.lookups <= 1
    /\ repos = lastCall.before /\ nodes = <<>> /\ edges = <<>>
    /\ (lastCall.at = "returned" /\ GetOr(lastCall.event, "mode", "contributors") \in Modes)
         => lastCall.response = Response(500, [error |-> "GitHub token not configured"])

\* the handler has refused a run of mode full over enabled repositories for
\* want of a token, the secret store having failed
NoTokenAbortsWitness ==
  /\ Handling /\ NoToken /\ lastCall.secret = "raise"
  /\ lastCall.at = "returned" /\ lastCall.response.statusCode = 500
  /\ lastCall.event = [mode |-> "full"]
  /\ scan_enabled(repos) # <<>>

\* C29: every repository ingest_repository was called for had an entry with
\* enabled = true in the repos table when the handler started, at most 5 are
\* ingested, and every entry enabled now was enabled then.
EnabledOnly ==
  Handling =>
    /\ \A k \in DOMAIN lastCall.ingested : IsEnabled(lastCall.before, lastCall.ingested[k].key)
    /\ Len(lastCall.ingested) <= BatchSize
    /\ \A key \in DOMAIN repos : IsEnabled(repos, key) => IsEnabled(lastCall.before, key)

\* the part of C29 about the size of the batch
AtMostFive == Handling => Len(lastCall.ingested) <= BatchSize

(***************************************************************************)
(* The two handlers, each invoked on its own: requests to the graph tool   *)
(* over the stores of the graph queries, and one run of the ingestion      *)
(* handler.                                                                *)
(***************************************************************************)
HandlersInit == GraphInit \/ BatchInit
HandlersNext == Invoke \/ Return \/ HandlerStart \/ SelectRepos \/ IngestOne \/ HandlerReturn
SpecHandlers == HandlersInit /\ [][HandlersNext]_vars

\* the parameters an action of the graph tool asks for (lines 436, 461, 485, 538)
Required(action) ==
  IF action = "find_reviewers" THEN {"labels", "repo"}
  ELSE IF action = "find_related_issues" THEN {"issueId", "repo"}
  ELSE IF action \in {"get_top_contributors", "find_relevant_issues"} THEN {"repo"}
  ELSE {}
\* the request lacks a parameter its action asks for
Lacking(body) ==
  \E p \in Required(Get(body, "action")) : p \notin DOMAIN GetOr(body, "params", EmptyDict)
InvalidMode == GetOr(lastCall.event, "mode", "contributors") \notin Modes

\* C27: a request to the graph tool that lacks repo, issueId or labels where
\* its action asks for it is answered 400 with an error that names the
\* parameters, and no query function is called for it; an ingestion event
\* whose mode is none of contributors, prs, full is answered 400 'Invalid
\* mode' with no token looked up, no storage call, no GitHub request, and the
\* tables as they were.
RejectedFirst ==
  /\ (lastCall.op = "lambda_handler" /\ Lacking(lastCall.body)) =>
       /\ lastCall.queried = <<>>
       /\ lastCall.response.statusCode = 400
       /\ lastCall.response.body.error \in {"repo parameter required",
                                            "labels and repo parameters required",
                                            "issueId and repo parameters required"}
  /\ (Handling /\ InvalidMode) =>
       /\ lastCall.at \in {"start", "returned"}
       /\ lastCall.lookups = 0 /\ lastCall.storage = 0 /\ lastCall.requests = 0
       /\ lastCall.selected = <<>> /\ lastCall.ingested = <<>>
       /\ repos = lastCall.before /\ nodes = <<>> /\ edges = <<>>
       /\ lastCall.at = "returned" => lastCall.response = Response(400, [error |-> "Invalid mode"])

\* find_reviewers without labels has been rejected over a store that holds
\* contributors, with the tables and GitHub answering
RejectedFirstWitness ==
  /\ lastCall.op = "lambda_handler"
  /\ lastCall.body = Request("find_reviewers", [repo |-> TheRepo])
  /\ lastCall.ok /\ lastCall.world = World("bug", 2)
  /\ lastCall.response.statusCode = 400
  /\ HasContributor(TheRepo)

\* an event of mode sync has been rejected with a token at hand and enabled
\* repositories in the table
InvalidModeWitness ==
  /\ Handling /\ lastCall.at = "returned"
  /\ lastCall.event = [mode |-> "sync"] /\ lastCall.secret = "token"
  /\ lastCall.response.statusCode = 400
  /\ scan_enabled(repos) # <<>>

(***************************************************************************)
(* Claims about the limits of the contributor loop.                        *)
(***************************************************************************)
\* C31: when an ingestion whose contributor loop was halted by the timeout
\* or by the ceiling has returned its statistics, the reason of the halt is
\* in the error list of the statistics, no more than MAX_CONTRIBUTORS
\* contributors were written and those written are in the graph, and the
\* later phases (the pull requests in mode full, the issues) were run.
HaltRecorded ==
  (hist.started /\ pc = "done" /\ hist.outcome = "returned" /\ hist.halt # 0)
    => /\ hist.halt \in Range(stats.errors)
       /\ hist.contributors <= MAX_CONTRIBUTORS
       /\ hist.contributors > 0 => UserId("alice") \in DOMAIN nodes
       /\ "issues" \in hist.reached
       /\ mode = "full" => "prs" \in hist.reached

\* the part of C31 that holds in mode contributors, and in every mode but
\* for the error list
HaltRecordedContributors ==
  (hist.started /\ pc = "done" /\ hist.outcome = "returned" /\ hist.halt # 0)
    => /\ mode = "contributors" => hist.halt \in Range(stats.errors)
       /\ hist.contributors <= MAX_CONTRIBUTORS
       /\ hist.contributors > 0 => UserId("alice") \in DOMAIN nodes
       /\ "issues" \in hist.reached
       /\ mode = "full" => "prs" \in hist.reached

(***************************************************************************)
(* Claims about malformed items.                                           *)
(***************************************************************************)
\* C32: an ingestion that met a pull request without user or an issue with
\* a null body, and none of whose requests used up its attempts, has
\* returned its statistics when it is over, and has gone through the items
\* after the malformed one.
ItemNeverRaises ==
  (hist.started /\ pc = "done" /\ hist.exhausted = {}
     /\ (hist.null_bodies # {} \/ noUser \cap Range(hist.attempted) # {}))
    => /\ hist.outcome = "returned"
       /\ "issues" \in hist.reached

\* the part of C32 about pull requests: one without user is passed over and
\* the run returns
NoUserPassedOver ==
  (hist.started /\ pc = "done" /\ hist.exhausted = {} /\ hist.null_bodies = {}
     /\ noUser \cap Range(hist.attempted) # {})
    => hist.outcome = "returned" /\ noUser \cap Range(hist.processed) = {}

(***************************************************************************)
(* Claims about the checkpoint at the end of a run.                        *)
(***************************************************************************)
\* the scrape of the run has come to its end
ScrapeOver == hist.started /\ "prs" \in hist.reached /\ pc = "issues"
LastProcessed == hist.processed[Len(hist.processed)]
Lowest(numbers) == CHOOSE n \in numbers : \A k \in numbers : n <= k

FinalCheckpointLeftWitness ==
  /\ ScrapeOver /\ prCount = 3 /\ hist.startCp = 1 /\ hist.skipped = {1, 2, 3}
  /\ hist.final = "left" /\ Persisted = 1

(***************************************************************************)
(* Runs of mode prs started again and again over an upstream that stays as *)
(* it is, with no failure, each of them interrupted anywhere or not.  Runs *)
(* are not counted and the clock stands still, so that the behaviours may  *)
(* go on for ever.  Of the behaviours only those are kept in which, again  *)
(* and again, a run writes a checkpoint or comes to the end of its loop.   *)
(***************************************************************************)
LiveInit ==
  /\ EmptyStore /\ IdleRun
  /\ repos = Table(Entry)
  /\ prCount \in (0 .. MaxPR) \cup {LongPR}
  /\ noUser \in SUBSET ({GhostPR} \cap 1 .. prCount)
  /\ mode = "prs"
  /\ faults = 0
  /\ cfaults = 0

\* lambda_handler calls ingest_repository for the repository, once more
StartAgain ==
  /\ pc \in {"idle", "done", "killed"}
  /\ pc' = "repo"
  /\ stats' = FreshStats
  /\ hist' = FreshHist
  /\ all_prs' = <<>> /\ page' = 1 /\ idx' = 1 /\ last_processed_pr' = 0
  /\ UNCHANGED <<storeVars, repos, prCount, noUser, mode, faults, cfaults, runs, news>>

\* a run saves a checkpoint, or its loop over the pull requests ends
CheckpointOrEnd == repos' # repos \/ (pc = "loop" /\ pc' = "issues")

LiveNext == StartAgain \/ Steps \/ Interrupt
\* The handler is invoked again whenever no run is under way, and the
\* interrupts do not keep every run for ever from its first checkpoint write.
SpecLive ==
  /\ LiveInit /\ [][LiveNext]_vars
  /\ WF_vars(StartAgain)
  /\ []<><<CheckpointOrEnd>>_vars

\* the pull requests a run can process
WithUser == (1 .. prCount) \ noUser

\* C34 as stated: eventually every pull request 1..N is processed and the
\* persisted checkpoint is the lowest number, 1.
EventuallyAllProcessed ==
  <>[](prCount >= 1 => /\ \A n \in 1 .. prCount : FullyProcessed(n)
                       /\ Persisted = 1)

\* C34, amended: eventually, and from then on, every pull request that has a
\* user is processed, with all its comments, reviews and files in the store,
\* and the persisted checkpoint is the lowest number of these.
EventuallyAllWithUser ==
  <>[](/\ \A n \in WithUser : FullyProcessed(n)
       /\ WithUser # {} => Persisted = Lowest(WithUser)
       /\ WithUser = {} => Persisted = 0)

\* a run is at the comments of pull request 3 again, which an interrupted
\* run had processed to the end without saving a checkpoint
ResumedWitness ==
  /\ hist.started /\ pc = "comments" /\ all_prs[idx] = 3
  /\ FullyProcessed(3) /\ ~FullyProcessed(2) /\ Persisted = 0

\* a run of eleven pull requests was interrupted after the checkpoint it saved
\* at its tenth, and the store holds what it had written
CheckpointedWitness ==
  /\ pc = "killed" /\ prCount = LongPR /\ Persisted = 2
  /\ FullyProcessed(3) /\ ~FullyProcessed(1)

\* another run has started after one that processed pull requests 3 and 1,
\* passed over 2, which has no user, and saved checkpoint 1
EventuallyAllWithUserWitness ==
  /\ pc = "repo" /\ prCount = 3 /\ noUser = {2}
  /\ FullyProcessed(3) /\ FullyProcessed(1) /\ Persisted = 1

\* the numbers of the pull requests the run has processed so far
ProcessedNow(h) == {h.processed[i] : i \in DOMAIN h.processed}

\* C35 as stated: the persisted checkpoint, once positive, never increases,
\* and a run that starts over a positive persisted checkpoint processes no
\* pull request whose number is that checkpoint or higher.
CheckpointNeverIncreases ==
  [][/\ Persisted > 0 => Persisted' <= Persisted
     /\ hist'.started =>
          (hist'.startCp > 0 => \A n \in ProcessedNow(hist') : n < hist'.startCp)]_vars

\* C35 where the read of the checkpoint has succeeded: the run writes no
\* checkpoint above the one it read, and processes nothing at or above it.
CheckpointReadNeverIncreases ==
  [][hist'.started /\ last_processed_pr' > 0 /\ last_processed_pr' = hist'.startCp =>
       /\ Persisted > 0 => Persisted' <= Persisted
       /\ \A n \in ProcessedNow(hist') : n < hist'.startCp]_vars

\* the first half alone: a positive persisted checkpoint is never raised
CheckpointFalls == [][Persisted > 0 => Persisted' <= Persisted]_vars

(***************************************************************************)
(* Two runs of scrape_pull_requests_comprehensive on the repository at the *)
(* same time: two invocations of the function, each with its own locals,   *)
(* over the same tables.  The locals of the two are kept in hist.run.      *)
(* Upstream stays as it is and nothing fails.                              *)
(***************************************************************************)
MaxStarts == 3
Slots == 1 .. 2

\* A plausible slip: the list is asked for in ascending order
\* (direction = asc).
PagesAscending(count, p) == [i \in 1 .. count |-> i]

\* lines 314-332: the pages of the list, newest first, one after the other
\* until a page comes short
RECURSIVE Pages(_, _)
Pages(count, p) ==
  IF Len(Page(count, p)) >= PerPage THEN Page(count, p) \o Pages(count, p + 1)
  ELSE Page(count, p)

IdleSlot == [pc |-> "idle", last_processed_pr |-> 0, all_prs |-> <<>>, idx |-> 1,
             stats |-> FreshStats]

OverlapInit ==
  /\ EmptyStore
  /\ pc = "idle" /\ last_processed_pr = 0 /\ all_prs = <<>> /\ page = 1 /\ idx = 1
  /\ stats = FreshStats /\ runs = 0 /\ news = 0
  /\ hist = [started |-> FALSE, run |-> [i \in Slots |-> IdleSlot],
             raised |-> FALSE, again |-> FALSE, skipped |-> {}]
  /\ repos = Table(Entry)
  /\ prCount \in (0 .. MaxPR) \cup {LongPR}
  /\ noUser \in SUBSET ({GhostPR} \cap 1 .. prCount)
  /\ mode = "prs"
  /\ faults = 0
  /\ cfaults = 0

OverlapLocals == <<pc, last_processed_pr, all_prs, page, idx, stats, news, mode, prCount,
                   noUser, faults, cfaults, now, calls, lastNode, lastEdge, lastCall>>

\* the checkpoint is saved by a run; hist.raised notes that it went up
Saved(h, table) ==
  [h EXCEPT !.raised = @ \/ (Persisted > 0 /\ get_last_processed_pr(table, RepoKey, TRUE) > Persisted)]

\* lines 286-292: an invocation starts and reads the checkpoint
OverlapBegin(i) ==
  /\ hist.run[i].pc \in {"idle", "done"}
  /\ runs < MaxStarts
  /\ runs' = runs + 1
  /\ hist' = [hist EXCEPT !.run[i] = [IdleSlot EXCEPT !.pc = "fetch",
                                                       !.last_processed_pr = Persisted]]
  /\ UNCHANGED <<OverlapLocals, nodes, edges, repos>>

\* lines 314-335: it fetches the list
OverlapFetch(i) ==
  /\ hist.run[i].pc = "fetch"
  /\ hist' = [hist EXCEPT !.run[i].all_prs = Pages(prCount, 1),
                          !.run[i].stats.prs_total = Len(Pages(prCount, 1)),
                          !.run[i].pc = "loop"]
  /\ UNCHANGED <<OverlapLocals, nodes, edges, repos, runs>>

\* lines 338-398: it takes the next pull request
OverlapLoop(i) ==
  LET r == hist.run[i]
      pr_number == r.all_prs[r.idx]
  IN /\ r.pc = "loop"
     /\ r.idx <= Len(r.all_prs)
     /\ IF Skips(r.last_processed_pr, pr_number)
        THEN /\ hist' = [hist EXCEPT !.run[i].stats.prs_skipped = @ + 1,
                                     !.run[i].idx = @ + 1,
                                     !.skipped = @ \cup {pr_number}]
             /\ UNCHANGED <<nodes, edges>>
        ELSE IF pr_number \in noUser
        THEN /\ hist' = [hist EXCEPT !.run[i].idx = @ + 1]
             /\ UNCHANGED <<nodes, edges>>
        ELSE LET tabs == ApplyWrites(Tabs, CoreWrites(pr_number), 1, 0, now)
             IN /\ nodes' = tabs.nodes
                /\ edges' = tabs.edges
                /\ hist' = [hist EXCEPT !.run[i].pc = "details",
                                        !.again = @ \/ FullyProcessed(pr_number)]
     /\ UNCHANGED <<OverlapLocals, repos, runs>>

\* lines 400-461: the comments, reviews and files of the pull request in hand
OverlapDetails(i) ==
  LET r == hist.run[i]
      pr_number == r.all_prs[r.idx]
      ws == CommentWrites(pr_number, Comments(pr_number))
              \o ReviewWrites(pr_number, Reviews(pr_number))
              \o FileWrites(pr_number, Files(pr_number))
      tabs == ApplyWrites(Tabs, ws, 1, 0, now)
  IN /\ r.pc = "details"
     /\ nodes' = tabs.nodes
     /\ edges' = tabs.edges
     /\ hist' = [hist EXCEPT !.run[i].pc = "count"]
     /\ UNCHANGED <<OverlapLocals, repos, runs>>

\* lines 463-472: the pull request is counted, and every tenth one saves the
\* checkpoint
OverlapCount(i) ==
  LET r == hist.run[i]
      pr_number == r.all_prs[r.idx]
      due == CheckpointDue(r.stats.prs_processed + 1)
      table == IF due THEN update_checkpoint(repos, RepoKey, pr_number, now, TRUE) ELSE repos
  IN /\ r.pc = "count"
     /\ repos' = table
     /\ hist' = [Saved(hist, table) EXCEPT !.run[i].stats.prs_processed = @ + 1,
                                           !.run[i].stats.last_pr_processed = pr_number,
                                           !.run[i].idx = @ + 1,
                                           !.run[i].pc = "loop"]
     /\ UNCHANGED <<OverlapLocals, nodes, edges, runs>>

\* lines 479-483: the final checkpoint, when a pull request was processed
OverlapFinal(i) ==
  LET r == hist.run[i]
      due == r.stats.prs_processed > 0
      table == IF due THEN update_checkpoint(repos, RepoKey, r.stats.last_pr_processed, now, TRUE)
               ELSE repos
  IN /\ r.pc = "loop"
     /\ r.idx > Len(r.all_prs)
     /\ repos' = table
     /\ hist' = [Saved(hist, table) EXCEPT !.run[i].pc = "done"]
     /\ UNCHANGED <<OverlapLocals, nodes, edges, runs>>

OverlapNext ==
  \E i \in Slots :
    \/ OverlapBegin(i) \/ OverlapFetch(i) \/ OverlapLoop(i)
    \/ OverlapDetails(i) \/ OverlapCount(i) \/ OverlapFinal(i)

SpecOverlap == OverlapInit /\ [][OverlapNext]_vars

\* the checkpoints in force: the persisted one and the ones the runs hold
InForce == {Persisted} \cup {hist.run[i].last_processed_pr : i \in Slots}

Dangling ==
  {k \in DOMAIN edges : edges[k].fromId \notin DOMAIN nodes \/ edges[k].toId \notin DOMAIN nodes}

\* C37: when a pass of ingest_repository in which nothing failed is over,
\* every edge of the edge table has its fromId and its toId among the nodes.
EdgesHaveNodes == (pc = "done" /\ hist.started /\ hist.outcome = "returned") => Dangling = {}

\* the same of the edges that do not start at a commenter or a reviewer
EdgesHaveNodesButAuthors ==
  (pc = "done" /\ hist.started /\ hist.outcome = "returned") =>
    \A k \in Dangling : edges[k].edgeType \in {"COMMENTED", "REVIEWED"}
                            /\ edges[k].toId \in DOMAIN nodes

\* the repositories of the run whose repository record was fetched
FetchedRepos == SelectSeq(lastCall.ingested, LAMBDA call : call.fetch = "ok")

\* C38: an entry of the results has status success, and the repository's
\* ingestStatus is set to success, only if the repository record was fetched
\* and the repo node written in this run; the successful count of the report
\* counts no repository whose fetch yielded nothing.
SuccessMeansFetched ==
  Handling =>
    /\ \A k \in DOMAIN lastCall.ingested :
         LET call == lastCall.ingested[k]
             changed == /\ call.key \in DOMAIN repos
                        /\ "ingestStatus" \in DOMAIN repos[call.key]
                        /\ \/ call.key \notin DOMAIN lastCall.before
                           \/ repos[call.key] # lastCall.before[call.key]
         IN /\ lastCall.results[k].status = "success" =>
                 /\ call.fetch = "ok"
                 /\ RepoId(RepoName(call.key[1], call.key[2])) \in DOMAIN nodes
            /\ (changed /\ repos[call.key].ingestStatus = "success") => call.fetch = "ok"
    /\ Reported => lastCall.response.body.successful <= Len(FetchedRepos)

\* the part of C38 that holds: a repository whose request raised is entered
\* with status error and is not counted among the successful
RaisedNotSuccess ==
  Handling =>
    /\ \A k \in DOMAIN lastCall.ingested :
         lastCall.ingested[k].fetch = "raise" => lastCall.results[k].status = "error"
    /\ Reported =>
         lastCall.response.body.successful
           <= Len(SelectSeq(lastCall.ingested, LAMBDA call : call.fetch # "raise"))

\* the codes of the responses of the call, in order
CodesSeen == {lastCall.log[k].code : k \in DOMAIN lastCall.log}
\* the paginated call has returned and no response was a 404 or a failure
\* other than a rate-limit rejection
ReturnedClean ==
  /\ Requesting /\ lastCall.paginate /\ lastCall.status = "returned"
  /\ CodesSeen \subseteq {200, 403}

PagesInOrder ==
  ReturnedClean =>
    lastCall.result = [p \in 1 .. PagesBefore(Len(lastCall.log) + 1) |-> p]

\* termination, step by step: a response that is no rejection adds a page or
\* ends the call, and the third failure in a row that is no rejection ends it
PageProgress ==
  [][(Requesting /\ lastCall.paginate /\ lastCall'.log # lastCall.log) =>
       LET sent == lastCall'.log[Len(lastCall'.log)]
       IN /\ (sent.code = 200) =>
               (Len(lastCall'.all_results) = Len(lastCall.all_results) + 1)
          /\ (sent.code = 404) => (lastCall'.status = "returned")
          /\ (sent.code = 500 /\ sent.attempt = max_retries - 1) =>
               (lastCall'.status = "returned")]_vars

====
